---- MODULE Spec2Model ----
(***************************************************************************)
(* Boundary-constrained encroachment detection: the raster calculator and  *)
(* engines of backend/core (ComplianceEngine, EconomicsEngine), the vector *)
(* calculator of backend/compliance/metrics.py with its orchestrator       *)
(* backend/analysis.py, the layout vectoriser and the built-up detectors   *)
(* (backend/utils/vectorize_layout.py, backend/utils/builtup_detection.py, *)
(* IntelligenceEngine.analyze_satellite_builtup), the admin handlers that  *)
(* vectorise an uploaded map (backend/admin_routes.py), and the change     *)
(* detection / project store of backend/image_processing.py.  On top of    *)
(* these: the Gemini metadata extractor                                    *)
(* (backend/utils/metadata_extractor.py), the financial estimate of        *)
(* EconomicsEngine, the plot map served from backend/demo_data.py, the     *)
(* upload / analyze / mobile-alert handlers of backend/routes.py, and      *)
(* requests served by several server processes, which interleave at the    *)
(* file operations of run_analysis, list_projects and upload_layout.       *)
(*                                                                         *)
(* Images are single-row pixel strips (of GridW pixels where every mask   *)
(* is enumerated); a binary mask is the set of its foreground pixels       *)
(* (value 255) and its shape is the strip's width.  Polygons are axis-     *)
(* aligned rectangles over the same frame, held as the set of unit cells   *)
(* they cover, so area, intersection and difference are exact.  Floats     *)
(* are exact rationals <<numerator, denominator>>.                         *)
(***************************************************************************)
EXTENDS Integers, Sequences, FiniteSets, TLC

\* Width in pixels of the modelled image frame.
GridW == 6
\* Polygon vertices have coordinates 0 .. PlaneW (PlaneW <= GridW).
PlaneW == 5
\* Longest list of built-up polygons handed to the vector calculator.
MaxPolys == 2
\* Percentages handed directly to the engines are multiples of 1/PctDen.
PctDen == 2
\* The readings of datetime.now() a run of the project store makes.
MaxClock == 3

(***************************************************************************)
(* Exact rational arithmetic standing for Python floats.                   *)
(***************************************************************************)
RECURSIVE GCD(_, _)
GCD(a, b) == IF b = 0 THEN a ELSE GCD(b, a % b)

Abs(x) == IF x < 0 THEN -x ELSE x

Norm(r) ==
    LET g == GCD(Abs(r[1]), r[2])
    IN  <<r[1] \div g, r[2] \div g>>

Rat(n, d) == Norm(<<n, d>>)
Whole(n) == <<n, 1>>
RAdd(a, b) == Norm(<<a[1] * b[2] + b[1] * a[2], a[2] * b[2]>>)
RSub(a, b) == Norm(<<a[1] * b[2] - b[1] * a[2], a[2] * b[2]>>)
RMul(a, b) == Norm(<<a[1] * b[1], a[2] * b[2]>>)
RLt(a, b) == a[1] * b[2] < b[1] * a[2]
RLe(a, b) == a[1] * b[2] <= b[1] * a[2]
RGt(a, b) == RLt(b, a)
RGe(a, b) == RLe(b, a)
REq(a, b) == a[1] * b[2] = b[1] * a[2]
RMin(a, b) == IF RLt(b, a) THEN b ELSE a
RMax(a, b) == IF RGt(b, a) THEN b ELSE a

\* Python round(x, k) with 10^k = scale: nearest, ties to even.
RoundTo(r, scale) ==
    LET n == Abs(r[1]) * scale
        q == n \div r[2]
        m == n % r[2]
        up == IF 2 * m > r[2] THEN 1
              ELSE IF 2 * m = r[2] THEN q % 2
              ELSE 0
    IN  Rat((IF r[1] < 0 THEN -1 ELSE 1) * (q + up), scale)

\* Python int(x) for x >= 0: truncation.
Trunc(r) == r[1] \div r[2]

Round2(r) == RoundTo(r, 100)
Round1(r) == RoundTo(r, 10)

(***************************************************************************)
(* Masks and OpenCV operations on them.                                    *)
(***************************************************************************)
\* The pixels of an image of the given shape.
Frame(shape) == 0 .. (shape - 1)
Grid == Frame(GridW)
Masks == SUBSET Grid

\* cv2.getStructuringElement(MORPH_RECT, (3, 3)) anchored at its centre,
\* restricted to the frame: the pixels within one step of p.
Kernel3(frame, p) == {p - 1, p, p + 1} \cap frame

bitwise_not(frame, m) == frame \ m
bitwise_and(a, b) == a \cap b
countNonZero(m) == Cardinality(m)

\* cv2.erode / cv2.dilate with the default border value: pixels outside
\* the frame never veto an erosion and never seed a dilation.
erode(frame, m) == {p \in frame : Kernel3(frame, p) \subseteq m}
dilate(frame, m) == {p \in frame : Kernel3(frame, p) \cap m # {}}
\* morph_open without its dilation.
morph_open_erode_only(frame, m) == erode(frame, m)

\* cv2.morphologyEx(m, MORPH_OPEN, kernel)
morph_open(frame, m) == dilate(frame, erode(frame, m))

None == [none |-> TRUE]

(***************************************************************************)
(* backend/core/compliance.py: ComplianceEngine.                           *)
(***************************************************************************)
\* ComplianceEngine.__init__: self.risk_levels
risk_levels == [critical |-> Whole(30), major |-> Whole(15),
                moderate |-> Whole(5), low |-> Whole(0)]

\* raster_metrics without the clamp of lines 46-47.
raster_metrics_unclamped(approved_count, built_inside_px, encroached_count) ==
    LET approved_px == IF approved_count < 1 THEN 1 ELSE approved_count
        encroached_px == encroached_count
        encroachment_pct == RMul(Rat(encroached_px, approved_px), Whole(100))
        utilization_pct == RMul(Rat(built_inside_px, approved_px), Whole(100))
    IN  [encroachment_pct |-> Round2(encroachment_pct),
         utilization_pct |-> Round2(utilization_pct),
         approved_px |-> approved_px,
         encroached_px |-> encroached_px,
         built_inside_px |-> built_inside_px]

\* raster_metrics with the clamp discarding an excessive count instead of
\* capping it.
raster_metrics_discarding(approved_count, built_inside_px, encroached_count) ==
    LET approved_px == IF approved_count < 1 THEN 1 ELSE approved_count
        encroached_px == IF encroached_count > approved_px
                         THEN 0 ELSE encroached_count
        encroachment_pct == RMul(Rat(encroached_px, approved_px), Whole(100))
        utilization_pct == RMul(Rat(built_inside_px, approved_px), Whole(100))
    IN  [encroachment_pct |-> Round2(encroachment_pct),
         utilization_pct |-> Round2(utilization_pct),
         approved_px |-> approved_px,
         encroached_px |-> encroached_px,
         built_inside_px |-> built_inside_px]

\* compute_encroachment, step 4 (metrics): the arithmetic on the three
\* pixel counts, from the zero-area floor to the rounded percentages.
raster_metrics(approved_count, built_inside_px, encroached_count) ==
    LET approved_px == IF approved_count < 1 THEN 1 ELSE approved_count
        encroached_px == IF encroached_count > approved_px
                         THEN approved_px ELSE encroached_count
        encroachment_pct == RMul(Rat(encroached_px, approved_px), Whole(100))
        utilization_pct == RMul(Rat(built_inside_px, approved_px), Whole(100))
    IN  [encroachment_pct |-> Round2(encroachment_pct),
         utilization_pct |-> Round2(utilization_pct),
         approved_px |-> approved_px,
         encroached_px |-> encroached_px,
         built_inside_px |-> built_inside_px]

\* compute_encroachment, steps 1-3: the encroachment mask.
encroachment_mask_of(shape, plot, built) ==
    morph_open(Frame(shape),
               bitwise_and(built, bitwise_not(Frame(shape), plot)))

\* shape is plot_mask.shape (= built_up_mask.shape, line 25).
compute_encroachment(shape, plot, built) ==
    LET encroachment_mask == encroachment_mask_of(shape, plot, built)
        built_inside == bitwise_and(built, plot)
        m == raster_metrics(countNonZero(plot), countNonZero(built_inside),
                            countNonZero(encroachment_mask))
    IN  [encroachment_pct |-> m.encroachment_pct,
         utilization_pct |-> m.utilization_pct,
         approved_px |-> m.approved_px,
         encroached_px |-> m.encroached_px,
         built_inside_px |-> m.built_inside_px,
         masks |-> [encroachment |-> encroachment_mask,
                    built_inside |-> built_inside]]

classify_land(metrics) ==
    LET encr == metrics.encroachment_pct
        util == metrics.utilization_pct
    IN  IF RGt(encr, Whole(10)) THEN "Major Encroachment"
        ELSE IF RGt(encr, Whole(1)) THEN "Encroached"
        ELSE IF RLt(util, Whole(5)) THEN "Vacant"
        ELSE IF RLt(util, Whole(30)) THEN "Under Construction"
        ELSE IF RGe(util, Whole(30)) THEN "Fully Constructed"
        ELSE "Unknown"

\* calculate_risk_score with the last band read from risk_levels["low"].
calculate_risk_score_low_from_table(encroachment_pct) ==
    IF RGe(encroachment_pct, risk_levels.critical)
    THEN [level |-> "CRITICAL", score |-> 100, color |-> "red"]
    ELSE IF RGe(encroachment_pct, risk_levels.major)
    THEN [level |-> "MAJOR VIOLATION", score |-> 75, color |-> "orange"]
    ELSE IF RGe(encroachment_pct, risk_levels.moderate)
    THEN [level |-> "MODERATE RISK", score |-> 40, color |-> "yellow"]
    ELSE IF RGt(encroachment_pct, risk_levels.low)
    THEN [level |-> "LOW RISK", score |-> 10, color |-> "blue"]
    ELSE [level |-> "COMPLIANT", score |-> 0, color |-> "green"]

calculate_risk_score(encroachment_pct) ==
    IF RGe(encroachment_pct, risk_levels.critical)
    THEN [level |-> "CRITICAL", score |-> 100, color |-> "red"]
    ELSE IF RGe(encroachment_pct, risk_levels.major)
    THEN [level |-> "MAJOR VIOLATION", score |-> 75, color |-> "orange"]
    ELSE IF RGe(encroachment_pct, risk_levels.moderate)
    THEN [level |-> "MODERATE RISK", score |-> 40, color |-> "yellow"]
    ELSE IF RGt(encroachment_pct, Rat(1, 2))
    THEN [level |-> "LOW RISK", score |-> 10, color |-> "blue"]
    ELSE [level |-> "COMPLIANT", score |-> 0, color |-> "green"]

ComplianceEngine_recommend_actions(risk_data, land_classification) ==
    LET level == risk_data.level
        by_level ==
            IF level = "CRITICAL"
            THEN <<"Issue Immediate Stop-Work Notice",
                   "Schedule Field Inspection (High Priority)",
                   "Legal Escalation for Demolition">>
            ELSE IF level = "MAJOR VIOLATION"
            THEN <<"Issue Warning Notice", "Schedule Field Inspection",
                   "Review Lease Agreement Conditions">>
            ELSE IF level = "MODERATE RISK"
            THEN <<"Notify Allottee to Rectify Boundary",
                   "Monitor via Satellite Next Cycle">>
            ELSE IF level = "LOW RISK"
            THEN <<"Monitor Only">>
            ELSE <<>>
    IN  IF land_classification = "Vacant"
        THEN Append(by_level, "Check Non-Utilization Penalty Applicability")
        ELSE by_level

(***************************************************************************)
(* backend/core/economics.py: EconomicsEngine.                             *)
(***************************************************************************)
EconomicsEngine_calculate_health_index(metrics, risk_score) ==
    LET utilization == metrics.utilization_pct
        compliance == RSub(Whole(100), metrics.encroachment_pct)
        risk_penalty == Whole(risk_score)
        health == RSub(RAdd(RMul(utilization, Rat(4, 10)),
                            RMul(compliance, Rat(4, 10))),
                       RMul(risk_penalty, Rat(2, 10)))
    IN  RMax(Whole(0), RMin(Whole(100), health))

\* The rates set in __init__.
lease_rate_per_sqft == Whole(50)
penalty_rate_per_sqft == Whole(200)

EconomicsEngine_estimate_financial_impact(plot_area_sqft, metrics, label) ==
    LET classification == label
        encroached_px == metrics.encroached_px
        approved_px == metrics.approved_px
        px_to_sqft == IF approved_px > 0
                      THEN RMul(plot_area_sqft, Rat(1, approved_px))
                      ELSE Whole(0)
        encroached_sqft == RMul(Whole(encroached_px), px_to_sqft)
        potential_revenue == RMul(plot_area_sqft, lease_rate_per_sqft)
        actual_revenue == IF classification = "Vacant" THEN Whole(0)
                          ELSE potential_revenue
        revenue_leakage == RSub(potential_revenue, actual_revenue)
        potential_penalty == RMul(encroached_sqft, penalty_rate_per_sqft)
    IN  [potential_annual_revenue |-> Round2(potential_revenue),
         estimated_revenue_leakage |-> Round2(revenue_leakage),
         recoverable_penalty |-> Round2(potential_penalty),
         inefficiency_index |->
             IF RGt(potential_revenue, Whole(0))
             THEN Round1(RMul(Rat(revenue_leakage[1] * potential_revenue[2],
                                  revenue_leakage[2] * potential_revenue[1]),
                              Whole(100)))
             ELSE Whole(0)]

(***************************************************************************)
(* Polygons (shapely): the set of unit cells a region covers.              *)
(***************************************************************************)
\* The rectangle between the vertex coordinates a and b: cells a .. b-1.
Rect(a, b) == a .. (b - 1)
Rects == {Rect(a, b) : a \in 0 .. PlaneW, b \in 1 .. PlaneW} \ {{}}
EmptyPolygon == {}
area(poly) == Cardinality(poly)
intersection(a, b) == a \cap b
difference(a, b) == a \ b
is_empty(poly) == poly = {}

(***************************************************************************)
(* backend/compliance/metrics.py.                                          *)
(***************************************************************************)
\* vector_pct without the cap of line 51.
vector_pct_uncapped(total_encroached_area, total_approved_area) ==
    RMul(Rat(total_encroached_area, total_approved_area), Whole(100))

\* calculate_encroachment, lines 49-51: the capped percentage.
vector_pct(total_encroached_area, total_approved_area) ==
    LET raw_pct == RMul(Rat(total_encroached_area, total_approved_area),
                        Whole(100))
    IN  RMin(raw_pct, Whole(100))

\* calculate_encroachment, lines 34-47: the accumulation loop over the
\* first n built-up polygons.
RECURSIVE encroachment_loop(_, _, _)
encroachment_loop(layout, polys, n) ==
    IF n = 0
    THEN [builtup |-> 0, encroached |-> 0, encroachment_polys |-> <<>>]
    ELSE LET acc == encroachment_loop(layout, polys, n - 1)
             poly == polys[n]
             diff == difference(poly, layout)
         IN  [builtup |-> acc.builtup + area(poly),
              encroached |-> IF is_empty(diff) THEN acc.encroached
                             ELSE acc.encroached + area(diff),
              encroachment_polys |->
                  IF is_empty(diff) THEN acc.encroachment_polys
                  ELSE Append(acc.encroachment_polys, diff)]

calculate_encroachment(layout, polys) ==
    LET total_approved_area == area(layout)
        acc == encroachment_loop(layout, polys, Len(polys))
    IN  IF total_approved_area = 0
        THEN [approved_area |-> 0, builtup_area |-> 0, encroached_area |-> 0,
              encroachment_pct |-> Whole(0), status |-> "INVALID_LAYOUT"]
        ELSE [approved_area |-> total_approved_area,
              builtup_area |-> acc.builtup,
              encroached_area |-> acc.encroached,
              encroachment_pct |-> vector_pct(acc.encroached,
                                              total_approved_area),
              encroachment_polygons |-> acc.encroachment_polys]

\* cv2.fillPoly / cv2.drawContours(..., -1, 255, -1) on a zeroed frame: the
\* mask whose foreground is every listed polygon, filled.
fillPoly(polys) == UNION {polys[i] : i \in DOMAIN polys}

\* A call that returned val, and a call that raised exc.
Returned(val) == [exc |-> "none", val |-> val]
Raised(exc) == [exc |-> exc]

\* The utilization calculate_health_index (line 71) and
\* determine_classification (line 88) compute from a metrics record.
vector_utilization_pct(metrics) ==
    RMul(Rat(metrics.builtup_area, metrics.approved_area), Whole(100))

calculate_health_index(metrics) ==
    IF metrics.approved_area = 0 THEN Raised("ZeroDivisionError")
    ELSE
    LET utilization_pct == RMul(Rat(metrics.builtup_area,
                                    metrics.approved_area), Whole(100))
        encroachment_pct == metrics.encroachment_pct
        base == RSub(Whole(100), RMul(encroachment_pct, Rat(5, 2)))
        score == IF RLt(utilization_pct, Whole(30))
                 THEN RSub(base, RMul(RSub(Whole(30), utilization_pct),
                                      Rat(1, 2)))
                 ELSE base
    IN  Returned(RMax(Whole(0), RMin(Whole(100), score)))

determine_classification(metrics) ==
    IF metrics.approved_area = 0 THEN Raised("ZeroDivisionError")
    ELSE
    LET utilization_pct == RMul(Rat(metrics.builtup_area,
                                    metrics.approved_area), Whole(100))
        encroachment_pct == metrics.encroachment_pct
    IN  Returned(
        IF RGt(encroachment_pct, Whole(15)) THEN "MAJOR_VIOLATION"
        ELSE IF RGt(encroachment_pct, Rat(1, 2)) THEN "ENCROACHMENT_MINOR"
        ELSE IF RLt(utilization_pct, Whole(5)) THEN "VACANT"
        ELSE IF RLt(utilization_pct, Whole(40)) THEN "UNDER_CONSTRUCTION"
        ELSE "FULLY_CONSTRUCTED")

\* Python's  word in text  over the classification strings.
HasWord(word, text) ==
    \/ word = "VIOLATION" /\ text = "MAJOR_VIOLATION"
    \/ word = "ENCROACHMENT" /\ text = "ENCROACHMENT_MINOR"

recommend_actions(cls, health) ==
    LET a1 == IF HasWord("VIOLATION", cls) \/ HasWord("ENCROACHMENT", cls)
              THEN <<"Issue Notice under Section 24",
                     "Schedule Site Inspection">>
                   \o (IF RLt(health, Whole(40))
                       THEN <<"Escalate to Legal Cell">> ELSE <<>>)
              ELSE <<>>
        a2 == IF cls = "VACANT"
              THEN a1 \o <<"Verify Lease Utilization Terms",
                           "Send Reminder for Construction Check">>
              ELSE a1
        a3 == IF cls = "FULLY_CONSTRUCTED" /\ RGt(health, Whole(80))
              THEN Append(a2, "Compliance Verified - No Action Needed")
              ELSE a2
    IN  IF a3 = <<>> THEN <<"Monitor via Satellite (Next Cycle)">> ELSE a3

(***************************************************************************)
(* backend/analysis.py.                                                    *)
(***************************************************************************)
PENALTY_RATE_PER_SQM == 500
\* pixel_to_sqm_factor = 0.1
pixel_to_sqm_factor == Rat(1, 10)

\* analyze_land_compliance from step 3 on, given the layout polygon and the
\* built-up polygons the vectoriser and the detector produced.  An exception
\* raised by a callee propagates to the caller.
analyze_land_compliance(layout, polys) ==
    LET metrics == calculate_encroachment(layout, polys)
        health == calculate_health_index(metrics)
        cls == determine_classification(metrics)
    IN  IF health.exc # "none" THEN Raised(health.exc)
        ELSE IF cls.exc # "none" THEN Raised(cls.exc)
        ELSE
        LET acts == recommend_actions(cls.val, health.val)
            encroached_sqm == RMul(Whole(metrics.encroached_area),
                                   pixel_to_sqm_factor)
            recoverable_penalty == RMul(encroached_sqm,
                                        Whole(PENALTY_RATE_PER_SQM))
        IN  Returned(
            [metrics |-> [total_pixels |-> PlaneW,
                          approved_area_px |-> metrics.approved_area,
                          builtup_area_px |-> metrics.builtup_area,
                          encroached_area_px |-> metrics.encroached_area,
                          encroachment_pct |->
                              Round2(metrics.encroachment_pct)],
             intelligence |-> [health_index |-> Round1(health.val),
                               classification |-> cls.val,
                               financial |-> [estimated_penalty |->
                                                 Round2(recoverable_penalty),
                                              currency |-> "INR"],
                               actions |-> acts]])

(***************************************************************************)
(* backend/utils/vectorize_layout.py.  A layout map is held as what        *)
(* cv2.imread / cv2.imdecode and the red-boundary segmentation make of it: *)
(* whether it decodes, and the largest contour of the cleaned boundary     *)
(* mask (EmptyPolygon when there is no contour).  kind tells a path (str)  *)
(* from uploaded bytes.                                                    *)
(***************************************************************************)
LayoutImages(kind) ==
    [kind : {kind}, readable : {TRUE}, boundary : Rects \cup {EmptyPolygon}]
    \cup [kind : {kind}, readable : {FALSE}, boundary : {EmptyPolygon}]

\* Returns (total_area_px, normalized_poly, largest_contour).  A path that
\* does not load raises ValueError; bytes that do not decode leave img =
\* None, and img.shape raises AttributeError.
process_layout_map(image_source) ==
    IF ~image_source.readable
    THEN IF image_source.kind = "str" THEN Raised("ValueError")
         ELSE Raised("AttributeError")
    ELSE IF image_source.boundary = EmptyPolygon
    THEN Returned([total_area_px |-> 0, normalized_poly |-> EmptyPolygon,
                   contour |-> None])
    ELSE Returned([total_area_px |-> area(image_source.boundary),
                   normalized_poly |-> image_source.boundary,
                   contour |-> [points |-> image_source.boundary]])

(***************************************************************************)
(* backend/utils/builtup_detection.py.  A satellite image is held as       *)
(* whether it loads and the edge pixels cv2.Canny finds in it.             *)
(***************************************************************************)
SatImages ==
    [readable : {TRUE}, edges : Masks]
    \cup [readable : {FALSE}, edges : {{}}]

\* A rectangular structuring element of (2 r + 1) x (2 r + 1) pixels at p.
KernelOf(frame, p, r) == ((p - r) .. (p + r)) \cap frame
dilate_k(frame, m, r) == {p \in frame : KernelOf(frame, p, r) \cap m # {}}
erode_k(frame, m, r) == {p \in frame : KernelOf(frame, p, r) \subseteq m}

\* cv2.findContours(m, RETR_EXTERNAL, ...): the connected regions of m.
findContours(m) ==
    {ab[1] .. ab[2] :
        ab \in {xy \in m \X m : /\ xy[1] <= xy[2]
                                /\ (xy[1] .. xy[2]) \subseteq m
                                /\ (xy[1] - 1) \notin m
                                /\ (xy[2] + 1) \notin m}}

\* The regions as a list, in scan order.
RECURSIVE contour_list(_)
contour_list(contours) ==
    IF contours = {} THEN <<>>
    ELSE LET first == CHOOSE c \in contours :
                          \A d \in contours \ {c} :
                              \A x \in c : \A y \in d : x <= y
         IN  <<first>> \o contour_list(contours \ {first})

\* detect_builtup_areas(image_path, roi_mask = roi_mask) on an image of the
\* given shape, with the default min_area_threshold = 0.01.
detect_builtup_areas(image, shape, roi_mask) ==
    IF ~image.readable THEN Raised("ValueError")
    ELSE
    LET frame == Frame(shape)
        edges == bitwise_and(image.edges, roi_mask)
        dilated == dilate_k(frame, dilate_k(frame, edges, 2), 2)
        closed == erode_k(frame,
                      erode_k(frame,
                          dilate_k(frame, dilate_k(frame, dilated, 3), 3),
                          3),
                      3)
        valid_contours == {cnt \in findContours(closed) :
                              ~(100 * area(cnt) < shape)}
    IN  Returned([builtup_polygons |-> contour_list(valid_contours),
                  final_mask |-> UNION valid_contours])

(***************************************************************************)
(* backend/analysis.py: the whole call, from the two image paths, with     *)
(* reference_geometry = None.  The layout map and the satellite image      *)
(* cover the same frame, so scaling the normalized polygon to satellite    *)
(* pixels gives the boundary's own coordinates back.                       *)
(***************************************************************************)
\* cv2.fillPoly(mask, [pts], 255) for the vertices of a polygon: the pixels
\* of the frame from its first to its last vertex, both drawn.
fillPoly_pts(frame, poly) == {p \in frame : p \in poly \/ (p - 1) \in poly}

analyze_land_compliance_paths(layout_path, satellite_path, shape) ==
    LET vectorized == process_layout_map(layout_path)
    IN  IF vectorized.exc # "none" THEN Raised(vectorized.exc)
        ELSE
        LET normalized_poly ==
                IF vectorized.val.normalized_poly = EmptyPolygon
                THEN Rect(0, shape)
                ELSE vectorized.val.normalized_poly
        IN  IF ~satellite_path.readable
            THEN Returned([error |-> "Could not load satellite image"])
            ELSE
            LET layout_shapely == normalized_poly
                roi_mask == fillPoly_pts(Frame(shape), normalized_poly)
                detected == detect_builtup_areas(satellite_path, shape,
                                                 roi_mask)
            IN  IF detected.exc # "none" THEN Raised(detected.exc)
                ELSE
                LET rest == analyze_land_compliance(
                                layout_shapely,
                                detected.val.builtup_polygons)
                IN  IF rest.exc # "none" THEN rest
                    ELSE Returned(
                        [metrics |-> [rest.val.metrics
                                         EXCEPT !.total_pixels = shape],
                         intelligence |-> rest.val.intelligence])

(***************************************************************************)
(* backend/admin_routes.py: the handlers that vectorise an uploaded map.   *)
(***************************************************************************)
LayoutIds == {"L1", "L2"}

\* digitize_layout: the set of its possible outcomes.  With no contour the
\* handler passes [None] to cv2.drawContours, which either rejects it or
\* draws nothing, depending on the OpenCV build.
digitize_layout(contents) ==
    LET vectorized == process_layout_map(contents)
    IN  IF vectorized.exc # "none"
        THEN {Raised("HTTPException(400)")}
        ELSE
        LET done == Returned(
                [polygon |-> vectorized.val.normalized_poly,
                 area_px |-> vectorized.val.total_area_px,
                 message |-> "Vectorization successful"])
        IN  IF vectorized.val.contour = None
            THEN {Raised("cv2.error"), done}
            ELSE {done}

\* upload_layout, steps 2-3: the polygon it stores for the layout and the
\* registry after the entry of this id has been replaced.  The form fields
\* name, category and approved_area are copied into the entry unchanged and
\* are left out.
upload_layout(registry_data, id, contents, shape) ==
    LET vectorized == process_layout_map(contents)
        geo_poly == IF vectorized.exc # "none" THEN Rect(0, shape)
                    ELSE vectorized.val.normalized_poly
        new_entry == [id |-> id, coordinates |-> geo_poly,
                      image_path |-> <<"layouts", id>>]
    IN  [registry |-> Append(SelectSeq(registry_data,
                                       LAMBDA item : item.id # id),
                             new_entry),
         response |-> Returned([message |-> "Layout saved to registry",
                                entry |-> new_entry])]

(***************************************************************************)
(* backend/core/intelligence.py: IntelligenceEngine.analyze_satellite_     *)
(* builtup.  sat_image is a loaded image; plot_polygon is held as its      *)
(* first and last vertex.                                                  *)
(***************************************************************************)
PlotPolygons(shape) ==
    {pp \in [x0 : 0 .. (shape + 1), x1 : 0 .. (shape + 1)] : pp.x0 <= pp.x1}

analyze_satellite_builtup(sat_image, shape, plot_polygon) ==
    LET frame == Frame(shape)
        mask == (plot_polygon.x0 .. plot_polygon.x1) \cap frame
        x == plot_polygon.x0
        w == plot_polygon.x1 - plot_polygon.x0 + 1
        \* sat_image[y:y+h, x:x+w]: the columns of the frame in the box
        crop == (x .. (x + w - 1)) \cap frame
        mask_crop == bitwise_and(mask, crop)
    IN  IF crop = {} THEN [built_up_mask |-> None, area |-> 0]
        ELSE
        LET edges == bitwise_and(sat_image.edges, crop)
            dilated == dilate_k(crop, dilate_k(crop,
                           dilate_k(crop, edges, 1), 1), 1)
            structure == erode_k(crop, erode_k(crop,
                             erode_k(crop, dilated, 1), 1), 1)
            built_up_mask == UNION findContours(structure)
            final_built_up == bitwise_and(built_up_mask, mask_crop)
        IN  [built_up_mask |->
                 [shape |-> Cardinality(crop),
                  pixels |-> {p - x : p \in final_built_up}],
             built_up_px |-> countNonZero(final_built_up),
             plot_area_px |-> countNonZero(mask_crop)]

(***************************************************************************)
(* backend/image_processing.py.  What extract_edges, extract_built_area    *)
(* and the morphological clean-up see in an uploaded image pair is held as *)
(* the three pixel counts they end in: the reference and the satellite     *)
(* built-up area and the area of the significant deviation contours.  The  *)
(* satellite built-up area is sampled at its two extremes.                 *)
(***************************************************************************)
ProjectIds == {"p1", "p2"}

\* The frame of the aligned pair: h * w.
total_pixels == GridW

ImagePairs ==
    [ref_readable : {TRUE}, sat_readable : {TRUE},
     ref_built_area : 0 .. total_pixels,
     sat_built_area : {0, total_pixels},
     deviation_area : 0 .. total_pixels]
    \cup
    [ref_readable : BOOLEAN, sat_readable : BOOLEAN,
     ref_built_area : {0}, sat_built_area : {0}, deviation_area : {0}]

\* detect_changes, step 5: the encroachment percentage.
change_percentage(deviation_area, ref_built_area) ==
    IF ref_built_area > 0
    THEN Round2(RMul(Rat(deviation_area, ref_built_area), Whole(100)))
    ELSE Round2(RMul(Rat(deviation_area, total_pixels), Whole(100)))

\* now is the reading of datetime.now() the results are stamped with.
detect_changes(pair, project_id, now) ==
    IF ~pair.ref_readable \/ ~pair.sat_readable
    THEN [error |-> "Could not load one or both images"]
    ELSE
    LET ref_built_area == pair.ref_built_area
        sat_built_area == pair.sat_built_area
        deviation_area == pair.deviation_area
        encroachment_pct == change_percentage(deviation_area, ref_built_area)
        built_area_change_pct ==
            IF ref_built_area > 0
            THEN Round2(RMul(Rat(sat_built_area - ref_built_area,
                                 ref_built_area), Whole(100)))
            ELSE Whole(0)
        band == IF RLt(encroachment_pct, Whole(3))
                THEN [severity |-> "low", status |-> "compliant"]
                ELSE IF RLt(encroachment_pct, Whole(10))
                THEN [severity |-> "moderate", status |-> "minor_deviation"]
                ELSE IF RLt(encroachment_pct, Whole(25))
                THEN [severity |-> "high", status |-> "violation"]
                ELSE [severity |-> "critical", status |-> "major_violation"]
        raw_score == 100 - Trunc(RMul(encroachment_pct, Whole(2)))
        compliance_score ==
            IF raw_score > 100 THEN 100
            ELSE IF raw_score < 0 THEN 0 ELSE raw_score
    IN  [project_id |-> project_id,
         timestamp |-> now,
         change_detection |->
             [total_pixels |-> total_pixels,
              ref_built_area_px |-> ref_built_area,
              sat_built_area_px |-> sat_built_area,
              deviation_area_px |-> deviation_area,
              change_percentage |-> encroachment_pct,
              built_area_change_pct |-> built_area_change_pct,
              severity |-> band.severity,
              status |-> band.status],
         compliance_score |-> compliance_score]


(***************************************************************************)
(* metadata_extractor.py.  A call is described by what it finds: whether   *)
(* GEMINI_API_KEY was set when the module was loaded, whether              *)
(* debug_gemini.log can be opened for appending, and the text a model      *)
(* would answer with.  The result holds what the call returned or raised   *)
(* and the lines it appended to the log.                                   *)
(***************************************************************************)
models_to_try ==
    <<"gemini-1.5-flash", "gemini-1.5-flash-latest", "gemini-1.5-pro",
      "gemini-1.5-pro-latest", "gemini-pro-vision">>

MetadataCalls ==
    [api_key : BOOLEAN, log_writable : BOOLEAN,
     response : {[text |-> "unparsable"], [text |-> "json"]}]

\* model.generate_content([{...}, prompt]): the argument list names prompt,
\* which the module never binds, so building it raises NameError before
\* the model is called.
generate_content(model_name, call) == Raised("NameError")

\* The loop over models_to_try from the i-th model on.
RECURSIVE try_models(_, _)
try_models(call, i) ==
    IF i > Len(models_to_try)
    THEN [response |-> None, last_error |-> None, log |-> <<>>]
    ELSE LET r == generate_content(models_to_try[i], call)
         IN  IF r.exc = "none"
             THEN [response |-> r.val, last_error |-> None,
                   log |-> <<<<"Trying model", models_to_try[i]>>>>]
             ELSE LET rest == try_models(call, i + 1)
                  IN  [response |-> rest.response,
                       last_error |-> IF rest.last_error = None THEN r
                                      ELSE rest.last_error,
                       log |-> <<<<"Trying model", models_to_try[i]>>,
                                 <<"Model failed", models_to_try[i]>>>>
                               \o rest.log]

\* The area post-processing of a parsed answer is not modelled: the answers
\* here carry no area.
extract_layout_metadata(call) ==
    IF ~call.log_writable
    THEN [ret |-> Raised("OSError"), log |-> <<>>]
    ELSE IF ~call.api_key
    THEN [ret |-> Returned([error |-> "Gemini API Key missing"]),
          log |-> <<<<"New Analysis Request">>, <<"API Key is missing">>>>]
    ELSE
    LET tries == try_models(call, 1)
        head == <<<<"New Analysis Request">>, <<"Detected Image Type">>>>
                \o tries.log
    IN  IF tries.response = None
        THEN [ret |-> Returned([error |-> tries.last_error.exc]),
              log |-> head \o <<<<"Gemini Analysis failed">>>>]
        ELSE IF tries.response.text = "unparsable"
        THEN [ret |-> Returned([error |-> "JSONDecodeError"]),
              log |-> head \o <<<<"Raw Gemini Response">>,
                                <<"Gemini Analysis failed">>>>]
        ELSE [ret |-> Returned([name |-> "layout", id |-> "L1"]),
              log |-> head \o <<<<"Raw Gemini Response">>,
                                <<"Parsed JSON">>>>]


(***************************************************************************)
(* demo_data.py: the plots the map is drawn from, and get_plots_geojson.   *)
(* A plot is held as its id, its area and its status; a feature as its     *)
(* properties (the ring of the geometry is left out).                      *)
(***************************************************************************)
DEMO_PLOTS ==
    <<[id |-> "URLA-001", area_id |-> "urla", status |-> "violation"],
      [id |-> "URLA-002", area_id |-> "urla", status |-> "compliant"],
      [id |-> "URLA-003", area_id |-> "urla", status |-> "vacant"],
      [id |-> "URLA-004", area_id |-> "urla", status |-> "violation"],
      [id |-> "SIL-001", area_id |-> "siltara", status |-> "violation"],
      [id |-> "SIL-002", area_id |-> "siltara", status |-> "compliant"],
      [id |-> "SIL-003", area_id |-> "siltara", status |-> "compliant"],
      [id |-> "SIL-004", area_id |-> "siltara", status |-> "violation"],
      [id |-> "BOR-001", area_id |-> "borai", status |-> "compliant"],
      [id |-> "BOR-002", area_id |-> "borai", status |-> "violation"],
      [id |-> "BOR-003", area_id |-> "borai", status |-> "vacant"],
      [id |-> "BHI-001", area_id |-> "bhilai", status |-> "compliant"],
      [id |-> "BHI-002", area_id |-> "bhilai", status |-> "violation"],
      [id |-> "KOR-001", area_id |-> "korba", status |-> "compliant"],
      [id |-> "KOR-002", area_id |-> "korba", status |-> "compliant"]>>

\* The area_id of a request; "" stands for a request without one.
AreaIds == {"", "urla", "korba"}

get_plots_geojson(area_id) ==
    LET plots == IF area_id # ""
                 THEN SelectSeq(DEMO_PLOTS, LAMBDA p : p.area_id = area_id)
                 ELSE DEMO_PLOTS
    IN  [type |-> "FeatureCollection",
         features |-> [i \in DOMAIN plots |->
                          [type |-> "Feature",
                           properties |-> [id |-> plots[i].id,
                                           status |-> plots[i].status,
                                           area_id |-> plots[i].area_id]]]]

(***************************************************************************)
(* State.  The raster inputs and the results of the ComplianceEngine /     *)
(* EconomicsEngine calls on them; the vector inputs and the results of the *)
(* metrics.py calls and of analyze_land_compliance on them.  A result is   *)
(* None until its call has been made.                                      *)
(***************************************************************************)
VARIABLES pc, mask_shape, plot_mask, built_up_mask, r_metrics, land_class,
          risk, econ_health, engine_actions, layout_poly, builtup_polys,
          v_metrics, v_health, v_class, v_actions, analysis,
          uploads, projects, results_json, returned,
          layout_image, satellite_image, roi_mask, plot_polygon,
          detection, sat_builtup, result_images,
          registry_json, layout_files, admin_response, financial_impact,
          clock, metadata_call, metadata, response, workers, writing

raster_in == <<mask_shape, plot_mask, built_up_mask>>
raster_out == <<r_metrics, land_class, risk, econ_health, engine_actions,
                financial_impact>>
vector_in == <<layout_poly, builtup_polys>>
vector_out == <<v_metrics, v_health, v_class, v_actions, analysis>>
\* The flat-file store of image_processing.py: the uploaded image pair, the
\* project.json and the results.json of each project id, and the value the
\* last call returned.
store == <<uploads, projects, results_json, returned>>
\* The inputs and results of the image-level entry points: the layout map
\* and the satellite image, the ROI mask, the plot polygon, what
\* detect_builtup_areas, analyze_satellite_builtup and the admin handlers
\* returned, and the files they wrote (result overlays, registry.json, the
\* saved layout images).
pipeline == <<layout_image, satellite_image, roi_mask, plot_polygon,
              detection, sat_builtup, result_images,
              registry_json, layout_files, admin_response>>
\* What the other requests take and leave: the arguments and the result of
\* extract_layout_metadata, the response of the last /api request, the
\* requests that are being served side by side (each with its position and
\* its local values) and the files that are open for writing.
requests == <<metadata_call, metadata, workers, writing>>
\* clock is what datetime.now() returns next.
vars == <<pc, raster_in, raster_out, vector_in, vector_out, store, pipeline,
          clock, response, requests>>

\* Lists of at most MaxPolys built-up polygons.
PolyLists == UNION {[1 .. n -> Rects] : n \in 0 .. MaxPolys}

\* Percentages handed directly to an engine: encroachment in steps of
\* 1/PctDen and utilization in steps of 5/PctDen, over 0 .. 100.
EncSamples == {Rat(e, PctDen) : e \in 0 .. (100 * PctDen)}
UtilUnits == 0 .. (20 * PctDen)

NoRaster ==
    /\ mask_shape = 0 /\ plot_mask = {} /\ built_up_mask = {}
NoVector ==
    /\ layout_poly = {} /\ builtup_polys = <<>>
NoResults ==
    /\ land_class = None /\ risk = None /\ econ_health = None
    /\ engine_actions = None /\ v_health = None /\ v_class = None
    /\ v_actions = None /\ analysis = None /\ financial_impact = None

NoMetadata == metadata_call = None /\ metadata = None

NoRequests ==
    /\ clock = 0 /\ response = None /\ workers = <<>> /\ writing = {}

NoPipeline ==
    /\ layout_image = None /\ satellite_image = None
    /\ roi_mask = {} /\ plot_polygon = None
    /\ detection = None /\ sat_builtup = None /\ result_images = {}
    /\ registry_json = <<>> /\ layout_files = {} /\ admin_response = None

\* Two masks of the frame's shape are handed to compute_encroachment.
RasterInit ==
    /\ NoPipeline
    /\ pc = "r_start"
    /\ mask_shape = GridW
    /\ plot_mask \in Masks /\ built_up_mask \in Masks
    /\ NoVector /\ NoResults /\ r_metrics = None /\ v_metrics = None

\* A layout polygon (possibly of zero area) and a list of built-up
\* polygons are handed to calculate_encroachment / analyze_land_compliance.
VectorInit ==
    /\ NoPipeline
    /\ pc = "v_start"
    /\ layout_poly \in Rects \cup {EmptyPolygon}
    /\ builtup_polys \in PolyLists
    /\ NoRaster /\ NoResults /\ r_metrics = None /\ v_metrics = None

\* The masks of the worked scenario, as strips: an approved square of
\* 100 x 100 pixels and a built-up block of 20 x 20 pixels wholly outside
\* it, 100 pixels away, in a frame with room for both.
ScenarioShape == 100 * 100 + 20 * 20 + 2 * 100
ScenarioPlot == 0 .. (100 * 100 - 1)
ScenarioBlock == (100 * 100 + 100) .. (100 * 100 + 100 + 20 * 20 - 1)

ScenarioInit ==
    /\ NoPipeline
    /\ pc = "r_start"
    /\ mask_shape = ScenarioShape
    /\ plot_mask = ScenarioPlot /\ built_up_mask = ScenarioBlock
    /\ NoVector /\ NoResults /\ r_metrics = None /\ v_metrics = None

\* A metrics dict is handed directly to the ComplianceEngine methods.
DirectRasterInit ==
    /\ NoPipeline
    /\ pc = "r_classify"
    /\ r_metrics \in {[encroachment_pct |-> e,
                       utilization_pct |-> Rat(5 * u, PctDen)] :
                      e \in EncSamples, u \in UtilUnits}
    /\ NoRaster /\ NoVector /\ NoResults /\ v_metrics = None

\* A metrics dict is handed directly to the metrics.py functions.
DirectVectorInit ==
    /\ NoPipeline
    /\ pc = "v_health"
    /\ v_metrics \in {[approved_area |-> 20 * PctDen, builtup_area |-> u,
                       encroachment_pct |-> e] :
                      e \in EncSamples, u \in UtilUnits}
    /\ NoRaster /\ NoVector /\ NoResults /\ r_metrics = None

\* No project has been uploaded.
EmptyStore ==
    /\ uploads = [p \in ProjectIds |-> None]
    /\ projects = [p \in ProjectIds |-> None]
    /\ results_json = [p \in ProjectIds |-> None]
    /\ returned = None

NoEngines ==
    /\ NoRaster /\ NoVector /\ NoResults
    /\ r_metrics = None /\ v_metrics = None

\* A layout map path and a satellite image path are handed to
\* analyze_land_compliance.
PipelineInit ==
    /\ pc = "a_start"
    /\ layout_image \in LayoutImages("str")
    /\ satellite_image \in SatImages
    /\ roi_mask = {} /\ plot_polygon = None
    /\ detection = None /\ sat_builtup = None /\ result_images = {}
    /\ registry_json = <<>> /\ layout_files = {} /\ admin_response = None
    /\ NoEngines

\* A satellite image path and an ROI mask are handed to
\* detect_builtup_areas.
DetectInit ==
    /\ pc = "d_start"
    /\ satellite_image \in SatImages
    /\ roi_mask \in Masks
    /\ layout_image = None /\ plot_polygon = None
    /\ detection = None /\ sat_builtup = None /\ result_images = {}
    /\ registry_json = <<>> /\ layout_files = {} /\ admin_response = None
    /\ NoEngines

\* A loaded satellite image and a plot polygon are handed to
\* analyze_satellite_builtup.
IntelligenceInit ==
    /\ pc = "i_start"
    /\ satellite_image \in {im \in SatImages : im.readable}
    /\ plot_polygon \in PlotPolygons(GridW)
    /\ layout_image = None /\ roi_mask = {}
    /\ detection = None /\ sat_builtup = None /\ result_images = {}
    /\ registry_json = <<>> /\ layout_files = {} /\ admin_response = None
    /\ NoEngines

\* A map is uploaded to an admin handler; the registry is empty or holds
\* one layout.
AdminInit ==
    /\ pc = "m_start"
    /\ layout_image \in LayoutImages("bytes")
    /\ \/ registry_json = <<>> /\ layout_files = {}
       \/ /\ registry_json = <<[id |-> "L1", coordinates |-> Rect(0, 1),
                                image_path |-> <<"layouts", "L1">>]>>
          /\ layout_files = {"L1"}
    /\ satellite_image = None /\ roi_mask = {} /\ plot_polygon = None
    /\ detection = None /\ sat_builtup = None /\ result_images = {}
    /\ admin_response = None
    /\ NoEngines

\* The bytes of a map are handed to extract_layout_metadata.
MetadataInit ==
    /\ pc = "x_start"
    /\ metadata_call \in MetadataCalls /\ metadata = None
    /\ NoPipeline /\ NoEngines

Init ==
    /\ \/ /\ \/ RasterInit \/ VectorInit
             \/ DirectRasterInit \/ DirectVectorInit \/ ScenarioInit
             \/ PipelineInit \/ DetectInit \/ IntelligenceInit
             \/ AdminInit
          /\ NoMetadata
       \/ MetadataInit
    /\ EmptyStore
    /\ NoRequests

ComputeEncroachment ==
    /\ pc = "r_start"
    /\ r_metrics' = compute_encroachment(mask_shape, plot_mask,
                                         built_up_mask)
    /\ pc' = "r_classify"
    /\ UNCHANGED <<raster_in, land_class, risk, econ_health, engine_actions,
                   financial_impact, vector_in, vector_out, store, pipeline,
                   clock, response, requests>>

ClassifyLand ==
    /\ pc = "r_classify"
    /\ land_class' = Returned(classify_land(r_metrics))
    /\ pc' = "r_risk"
    /\ UNCHANGED <<raster_in, r_metrics, risk, econ_health, engine_actions,
                   financial_impact, vector_in, vector_out, store, pipeline,
                   clock, response, requests>>

CalculateRiskScore ==
    /\ pc = "r_risk"
    /\ risk' = calculate_risk_score(r_metrics.encroachment_pct)
    /\ pc' = "r_health"
    /\ UNCHANGED <<raster_in, r_metrics, land_class, econ_health,
                   engine_actions, financial_impact, vector_in, vector_out,
                   store, pipeline,
                   clock, response, requests>>

EconomicsHealthIndex ==
    /\ pc = "r_health"
    /\ econ_health' =
           Returned(EconomicsEngine_calculate_health_index(r_metrics,
                                                           risk.score))
    /\ pc' = "r_recommend"
    /\ UNCHANGED <<raster_in, r_metrics, land_class, risk, engine_actions,
                   financial_impact, vector_in, vector_out, store, pipeline,
                   clock, response, requests>>

EngineRecommendActions ==
    /\ pc = "r_recommend"
    /\ engine_actions' =
           Returned(ComplianceEngine_recommend_actions(risk, land_class.val))
    /\ pc' = "done"
    /\ UNCHANGED <<raster_in, r_metrics, land_class, risk, econ_health,
                   financial_impact, vector_in, vector_out, store, pipeline,
                   clock, response, requests>>

\* The plot areas (square feet) the estimator is tried with.
PlotAreasSqft == {Whole(0), Whole(5000), Rat(107639, 10)}

\* estimate_financial_impact on the metrics and the label of a plot whose
\* masks went through the engine.
EstimateFinancialImpact(plot_area_sqft) ==
    /\ pc = "done"
    /\ r_metrics # None /\ "approved_px" \in DOMAIN r_metrics
    /\ land_class # None
    /\ financial_impact' =
           Returned(EconomicsEngine_estimate_financial_impact(
                        plot_area_sqft, r_metrics, land_class.val))
    /\ pc' = "r_estimated"
    /\ UNCHANGED <<raster_in, r_metrics, land_class, risk, econ_health,
                   engine_actions, vector_in, vector_out, store, pipeline,
                   clock, response, requests>>

CalculateEncroachment ==
    /\ pc = "v_start"
    /\ v_metrics' = calculate_encroachment(layout_poly, builtup_polys)
    /\ pc' = "v_health"
    /\ UNCHANGED <<raster_in, raster_out, vector_in, v_health, v_class,
                   v_actions, analysis, store, pipeline,
                   clock, response, requests>>

CalculateHealthIndex ==
    /\ pc = "v_health"
    /\ v_health' = calculate_health_index(v_metrics)
    /\ pc' = "v_classify"
    /\ UNCHANGED <<raster_in, raster_out, vector_in, v_metrics, v_class,
                   v_actions, analysis, store, pipeline,
                   clock, response, requests>>

DetermineClassification ==
    /\ pc = "v_classify"
    /\ v_class' = determine_classification(v_metrics)
    /\ pc' = "v_recommend"
    /\ UNCHANGED <<raster_in, raster_out, vector_in, v_metrics, v_health,
                   v_actions, analysis, store, pipeline,
                   clock, response, requests>>

\* recommend_actions takes the values the two calls before it returned.
RecommendActions ==
    /\ pc = "v_recommend"
    /\ v_health.exc = "none" /\ v_class.exc = "none"
    /\ v_actions' = Returned(recommend_actions(v_class.val, v_health.val))
    /\ pc' = "done"
    /\ UNCHANGED <<raster_in, raster_out, vector_in, v_metrics, v_health,
                   v_class, analysis, store, pipeline,
                   clock, response, requests>>

AnalyzeLandCompliance ==
    /\ pc = "v_start"
    /\ analysis' = analyze_land_compliance(layout_poly, builtup_polys)
    /\ result_images' = IF analysis'.exc = "none"
                        THEN result_images \cup {"analysis_result"}
                        ELSE result_images
    /\ pc' = "done"
    /\ UNCHANGED <<raster_in, raster_out, vector_in, v_metrics, v_health,
                   v_class, v_actions, store, clock, response, requests,
                   layout_image, satellite_image,
                   roi_mask, plot_polygon, detection, sat_builtup,
                   registry_json, layout_files, admin_response>>

AnalyzeLandCompliancePaths ==
    /\ pc = "a_start"
    /\ analysis' = analyze_land_compliance_paths(layout_image,
                                                 satellite_image, GridW)
    /\ result_images' = IF analysis'.exc = "none"
                           /\ "error" \notin DOMAIN analysis'.val
                        THEN result_images \cup {"analysis_result"}
                        ELSE result_images
    /\ pc' = "done"
    /\ UNCHANGED <<raster_in, raster_out, vector_in, v_metrics, v_health,
                   v_class, v_actions, store, clock, response, requests,
                   layout_image, satellite_image,
                   roi_mask, plot_polygon, detection, sat_builtup,
                   registry_json, layout_files, admin_response>>

DetectBuiltupAreas ==
    /\ pc = "d_start"
    /\ detection' = detect_builtup_areas(satellite_image, GridW, roi_mask)
    /\ pc' = "done"
    /\ UNCHANGED <<raster_in, raster_out, vector_in, vector_out, store,
                   clock, response, requests,
                   layout_image, satellite_image, roi_mask, plot_polygon,
                   sat_builtup, result_images, registry_json, layout_files,
                   admin_response>>

AnalyzeSatelliteBuiltup ==
    /\ pc = "i_start"
    /\ sat_builtup' = analyze_satellite_builtup(satellite_image, GridW,
                                                plot_polygon)
    /\ pc' = "done"
    /\ UNCHANGED <<raster_in, raster_out, vector_in, vector_out, store,
                   clock, response, requests,
                   layout_image, satellite_image, roi_mask, plot_polygon,
                   detection, result_images, registry_json, layout_files,
                   admin_response>>

DigitizeLayout ==
    /\ pc = "m_start"
    /\ admin_response' \in digitize_layout(layout_image)
    /\ pc' = "done"
    /\ UNCHANGED <<raster_in, raster_out, vector_in, vector_out, store,
                   clock, response, requests,
                   layout_image, satellite_image, roi_mask, plot_polygon,
                   detection, sat_builtup, result_images, registry_json,
                   layout_files>>

\* upload_layout: the image saved under the id, then the registry entry.
UploadLayout(id) ==
    /\ pc = "m_start"
    /\ layout_files' = layout_files \cup {id}
    /\ LET saved == upload_layout(registry_json, id, layout_image, GridW)
       IN  /\ registry_json' = saved.registry
           /\ admin_response' = saved.response
    /\ pc' = "done"
    /\ UNCHANGED <<raster_in, raster_out, vector_in, vector_out, store,
                   clock, response, requests,
                   layout_image, satellite_image, roi_mask, plot_polygon,
                   detection, sat_builtup, result_images>>

ExtractLayoutMetadata ==
    /\ pc = "x_start"
    /\ metadata' = extract_layout_metadata(metadata_call)
    /\ pc' = "x_done"
    /\ UNCHANGED <<raster_in, raster_out, vector_in, vector_out, store,
                   pipeline, clock, metadata_call, response, workers,
                   writing>>

\* GET /api/geojson, after an admin request was served.
GetGeojson(area_id) ==
    /\ pc = "done"
    /\ admin_response # None
    /\ response' = Returned(get_plots_geojson(area_id))
    /\ pc' = "g_done"
    /\ UNCHANGED <<raster_in, raster_out, vector_in, vector_out, store,
                   pipeline, clock, requests>>

Next ==
    \/ ComputeEncroachment
    \/ ClassifyLand
    \/ CalculateRiskScore
    \/ EconomicsHealthIndex
    \/ EngineRecommendActions
    \/ CalculateEncroachment
    \/ CalculateHealthIndex
    \/ DetermineClassification
    \/ RecommendActions
    \/ AnalyzeLandCompliance
    \/ AnalyzeLandCompliancePaths
    \/ DetectBuiltupAreas
    \/ AnalyzeSatelliteBuiltup
    \/ DigitizeLayout
    \/ \E id \in LayoutIds : UploadLayout(id)
    \/ ExtractLayoutMetadata
    \/ \E area_id \in AreaIds : GetGeojson(area_id)
    \/ \E plot_area_sqft \in PlotAreasSqft :
           EstimateFinancialImpact(plot_area_sqft)

Spec == Init /\ [][Next]_vars

(***************************************************************************)
(* The project store: create_project and run_analysis.                     *)
(***************************************************************************)
engines == <<raster_in, raster_out, vector_in, vector_out>>

StoreInit ==
    /\ NoPipeline
    /\ pc = "idle"
    /\ NoRaster /\ NoVector /\ NoResults
    /\ r_metrics = None /\ v_metrics = None
    /\ EmptyStore
    /\ NoMetadata /\ NoRequests

\* create_project: a fresh id, the two uploads saved under it, and the
\* project record written to project.json.
create_project(project_id, pair) ==
    /\ pc = "idle"
    /\ projects[project_id] = None
    /\ clock < MaxClock
    /\ clock' = clock + 1
    /\ LET project_info == [id |-> project_id,
                            name |-> <<"Project", project_id>>,
                            created_at |-> clock,
                            reference_image |-> <<project_id, "reference">>,
                            satellite_image |-> <<project_id, "satellite">>,
                            status |-> "uploaded",
                            results |-> None]
       IN  /\ uploads' = [uploads EXCEPT ![project_id] = pair]
           /\ projects' = [projects EXCEPT ![project_id] = project_info]
           /\ returned' = project_info
    /\ UNCHANGED <<pc, engines, pipeline, results_json, requests>>

CreateProject(project_id, pair) ==
    create_project(project_id, pair) /\ UNCHANGED response

\* run_analysis, the record it writes back: the loaded record with its
\* status and its results assigned.
analyzed_keeping_results(project, results) ==
    [project EXCEPT !.status = "analyzed",
                    !.results = IF project.results = None THEN results
                                ELSE project.results]

analyzed(project, results) ==
    [project EXCEPT !.status = "analyzed", !.results = results]

\* run_analysis.  On an id with no project.json it returns an error; on a
\* stored project it calls detect_changes on the two stored images (which
\* writes results.json when it gets as far as its results) and rewrites
\* the project record with the status and the results.
run_analysis(project_id) ==
    /\ pc = "idle"
    /\ \/ /\ projects[project_id] = None
          /\ returned' = [error |-> <<"Project not found", project_id>>]
          /\ UNCHANGED <<projects, results_json, clock>>
       \/ /\ projects[project_id] # None
          /\ clock < MaxClock
          /\ LET results == detect_changes(uploads[project_id], project_id,
                                           clock)
             IN  /\ clock' = IF "error" \in DOMAIN results THEN clock
                             ELSE clock + 1
                 /\ results_json' =
                        IF "error" \in DOMAIN results THEN results_json
                        ELSE [results_json EXCEPT ![project_id] = results]
                 /\ projects' = [projects EXCEPT
                        ![project_id] = analyzed(@, results)]
                 /\ returned' = results
    /\ UNCHANGED <<pc, engines, pipeline, uploads, requests>>

\* run_analysis called on an id with no project.json.
RunAnalysisNotFound(project_id) ==
    /\ projects[project_id] = None
    /\ run_analysis(project_id)
    /\ UNCHANGED response

\* run_analysis called on a stored project.
RunAnalysis(project_id) ==
    /\ projects[project_id] # None
    /\ run_analysis(project_id)
    /\ UNCHANGED response

StoreNext ==
    \/ \E project_id \in ProjectIds, pair \in ImagePairs :
           CreateProject(project_id, pair)
    \/ \E project_id \in ProjectIds : RunAnalysisNotFound(project_id)
    \/ \E project_id \in ProjectIds : RunAnalysis(project_id)

SpecProjects == StoreInit /\ [][StoreNext]_vars

(***************************************************************************)
(* routes.py: the handlers of /api/upload, /api/analyze/{project_id} and   *)
(* /api/mobile/alerts.  response is what the handler returned or raised.   *)
(***************************************************************************)
\* The multipart form of an upload: whether a reference map and whether a
\* plot_id came with the satellite image.
UploadForms == [reference : BOOLEAN, plot_id : BOOLEAN]

\* The positional parameters of create_project, and the arguments
\* upload_images calls it with.
create_project_parameters ==
    <<"ref_bytes", "ref_filename", "sat_bytes", "sat_filename",
      "project_name">>
upload_images_arguments ==
    <<"ref_bytes", "ref_filename", "sat_bytes", "satellite.filename",
      "project_name", "plot_id">>

\* upload_images.  The call binds only when create_project has a parameter
\* for every argument; otherwise Python raises TypeError before the body
\* of create_project runs.
UploadImages(form, project_id, pair) ==
    /\ pc = "idle"
    /\ IF ~form.reference /\ ~form.plot_id
       THEN /\ response' = Raised("HTTPException(400)")
            /\ UNCHANGED <<pc, engines, pipeline, store, clock, requests>>
       ELSE IF Len(upload_images_arguments) > Len(create_project_parameters)
       THEN /\ response' = Raised("TypeError")
            /\ UNCHANGED <<pc, engines, pipeline, store, clock, requests>>
       ELSE /\ create_project(project_id, pair)
            /\ response' = Returned([message |-> "Images uploaded successfully",
                                     project |-> returned'])

\* analyze_project: run_analysis, and its error dict turned into a 404.
AnalyzeProject(project_id) ==
    /\ run_analysis(project_id)
    /\ response' = IF "error" \in DOMAIN returned'
                   THEN Raised("HTTPException(404)")
                   ELSE Returned(returned')

\* list_projects: every project.json, newest first.
RECURSIVE sorted_by_created_at(_)
sorted_by_created_at(records) ==
    IF records = {} THEN <<>>
    ELSE LET newest == CHOOSE x \in records :
                           \A y \in records : y.created_at <= x.created_at
         IN  <<newest>> \o sorted_by_created_at(records \ {newest})

list_projects ==
    sorted_by_created_at({projects[d] : d \in {i \in ProjectIds :
                                                  projects[i] # None}})

\* The letters of the status strings detect_changes writes, of the default
\* of get_mobile_alerts and of the words it looks for.
spell ==
    [text \in {"compliant", "minor_deviation", "violation",
               "major_violation", "UNKNOWN", "VIOLATION", "ENCROACHMENT"} |->
        CASE text = "compliant" -> <<"c", "o", "m", "p", "l", "i", "a", "n", "t">>
          [] text = "minor_deviation" ->
                 <<"m", "i", "n", "o", "r", "_", "d", "e", "v", "i", "a", "t",
                   "i", "o", "n">>
          [] text = "violation" -> <<"v", "i", "o", "l", "a", "t", "i", "o", "n">>
          [] text = "major_violation" ->
                 <<"m", "a", "j", "o", "r", "_", "v", "i", "o", "l", "a", "t",
                   "i", "o", "n">>
          [] text = "UNKNOWN" -> <<"U", "N", "K", "N", "O", "W", "N">>
          [] text = "VIOLATION" -> <<"V", "I", "O", "L", "A", "T", "I", "O", "N">>
          [] text = "ENCROACHMENT" ->
                 <<"E", "N", "C", "R", "O", "A", "C", "H", "M", "E", "N", "T">>]

\* Python's  word in text  on strings: word occurs in text letter for
\* letter.
str_in(word, text) ==
    LET w == spell[word]
        t == spell[text]
    IN  \E k \in 0 .. (Len(t) - Len(w)) :
            \A j \in 1 .. Len(w) : t[k + j] = w[j]

\* get_mobile_alerts, the loop from the i-th project on, with the alerts
\* collected so far.  p.get("results", {}) is None for a record whose
\* results are null, and None has no get.
RECURSIVE alerts_loop(_, _, _)
alerts_loop(listed, i, alerts) ==
    IF i > Len(listed) THEN Returned(alerts)
    ELSE
    LET p == listed[i]
        results == p.results
    IN  IF results = None THEN Raised("AttributeError")
        ELSE
        LET detected == "change_detection" \in DOMAIN results
            status == IF detected THEN results.change_detection.status
                      ELSE "UNKNOWN"
            pct == IF detected
                   THEN results.change_detection.change_percentage
                   ELSE Whole(0)
        IN  IF str_in("VIOLATION", status) \/ str_in("ENCROACHMENT", status)
            THEN alerts_loop(listed, i + 1,
                     Append(alerts, [title |-> <<"High Priority", p.name>>,
                                     plotId |-> p.id,
                                     description |-> pct,
                                     severity |-> "HIGH"]))
            ELSE alerts_loop(listed, i + 1, alerts)

\* The list it returns is held as the alerts of the response body.
get_mobile_alerts(listed) ==
    LET collected == alerts_loop(listed, 1, <<>>)
    IN  IF collected.exc # "none" THEN collected
        ELSE IF collected.val = <<>>
        THEN Returned([alerts |-> <<[title |-> <<"System Active">>,
                                     plotId |-> "SYS-001",
                                     description |-> Whole(0),
                                     severity |-> "LOW"]>>])
        ELSE Returned([alerts |-> collected.val])

GetMobileAlerts ==
    /\ pc = "idle"
    /\ response' = get_mobile_alerts(list_projects)
    /\ UNCHANGED <<pc, engines, pipeline, store, clock, requests>>

\* The uploads the requests are tried on: a pair that cannot be read, and
\* readable pairs with a deviation of up to two pixels.
SamplePairs ==
    {pair \in ImagePairs :
        /\ pair.ref_readable = pair.sat_readable
        /\ pair.sat_built_area = pair.ref_built_area
        /\ pair.ref_built_area \in {0, total_pixels}
        /\ pair.deviation_area <= 2}

\* The requests to /api, on a store whose projects were written by
\* create_project.
RoutesNext ==
    \/ \E project_id \in ProjectIds, pair \in SamplePairs :
           CreateProject(project_id, pair)
    \/ \E form \in UploadForms, project_id \in ProjectIds,
          pair \in SamplePairs : UploadImages(form, project_id, pair)
    \/ \E project_id \in ProjectIds : AnalyzeProject(project_id)
    \/ GetMobileAlerts

SpecRoutes == StoreInit /\ [][RoutesNext]_vars

(***************************************************************************)
(* Requests served side by side.  Nothing in image_processing.py or        *)
(* admin_routes.py takes a lock, so when the requests are served by        *)
(* separate server processes their file operations interleave one by one.  *)
(* A worker is one such request: what it was asked, where it stands, and   *)
(* its local values.  writing holds the files that do not parse: a file    *)
(* opened with mode "w" is empty until its writer dumps and closes it, and *)
(* a dump over what another writer has put there since may leave the tail  *)
(* of the longer text behind.                                              *)
(***************************************************************************)
ProjectFile(project_id) == <<"project.json", project_id>>
ResultsFile(project_id) == <<"results.json", project_id>>
RegistryFile == <<"registry.json">>

\* The maps the overlapping uploads carry.
UploadContents ==
    {c \in LayoutImages("bytes") :
        c.readable /\ c.boundary \in {Rect(0, 1), Rect(0, 2)}}

RunAnalysisTasks ==
    [op : {"run_analysis"}, id : ProjectIds, at : {"start"},
     project : {None}, results : {None}, ret : {None}]
UploadLayoutTasks ==
    [op : {"upload_layout"}, id : LayoutIds, contents : UploadContents,
     at : {"start"}, registry_data : {<<>>}, ret : {None}]
ListProjectsTask == [op |-> "list_projects", at |-> "start", ret |-> None]

\* Two run_analysis requests and a list_projects request on a store with
\* one uploaded project, or two upload_layout requests on a registry that
\* is empty or holds one layout.
WorkersInit ==
    /\ pc = "serving"
    /\ NoEngines /\ NoMetadata
    /\ layout_image = None /\ satellite_image = None
    /\ roi_mask = {} /\ plot_polygon = None
    /\ detection = None /\ sat_builtup = None /\ result_images = {}
    /\ admin_response = None /\ response = None /\ returned = None
    /\ writing = {}
    /\ \/ /\ \E pair \in SamplePairs :
                /\ uploads = [p \in ProjectIds |->
                                 IF p = "p1" THEN pair ELSE None]
                /\ projects =
                       [p \in ProjectIds |->
                           IF p = "p1"
                           THEN [id |-> "p1",
                                 name |-> <<"Project", "p1">>,
                                 created_at |-> 0,
                                 reference_image |-> <<"p1", "reference">>,
                                 satellite_image |-> <<"p1", "satellite">>,
                                 status |-> "uploaded",
                                 results |-> None]
                           ELSE None]
          /\ results_json = [p \in ProjectIds |-> None]
          /\ clock = 1
          /\ registry_json = <<>> /\ layout_files = {}
          /\ \E t1 \in RunAnalysisTasks, t2 \in RunAnalysisTasks :
                workers = [w \in {"w1", "w2", "w3"} |->
                              IF w = "w1" THEN t1
                              ELSE IF w = "w2" THEN t2
                              ELSE ListProjectsTask]
       \/ /\ EmptyStore /\ clock = 0
          /\ \/ registry_json = <<>> /\ layout_files = {}
             \/ /\ registry_json =
                       <<[id |-> "L1", coordinates |-> Rect(0, 1),
                          image_path |-> <<"layouts", "L1">>]>>
                /\ layout_files = {"L1"}
          /\ \E t1 \in UploadLayoutTasks, t2 \in UploadLayoutTasks :
                workers = [w \in {"w1", "w2"} |->
                              IF w = "w1" THEN t1 ELSE t2]

WorkerIds == {"w1", "w2", "w3"}

\* The worker w moves on, with the given local values.
Moves(w, task) == workers' = [workers EXCEPT ![w] = task]

\* open(file, "w"): the file is there and empty.
Opens(file) == writing' = writing \cup {file}

\* json.dump and close.  On a file that is still empty the text lands
\* whole; on a file another writer has filled in the meantime it lands
\* whole or over a longer text.
Dumps(file) ==
    IF file \in writing THEN writing' = writing \ {file}
    ELSE writing' \in {writing, writing \cup {file}}

served == <<pc, raster_in, raster_out, vector_in, vector_out, uploads,
            returned, layout_image, satellite_image, roi_mask, plot_polygon,
            detection, sat_builtup, result_images, admin_response, response,
            metadata_call, metadata>>

\* run_analysis, line 356: os.path.exists(project_file).
RaExists(w) ==
    LET t == workers[w]
    IN  /\ w \in DOMAIN workers
        /\ t.op = "run_analysis" /\ t.at = "start"
        /\ IF projects[t.id] = None
           THEN Moves(w, [t EXCEPT
                    !.at = "done",
                    !.ret = Returned([error |-> <<"Project not found",
                                                  t.id>>])])
           ELSE Moves(w, [t EXCEPT !.at = "exists"])
        /\ UNCHANGED <<served, projects, results_json, registry_json,
                       layout_files, clock, writing>>

\* run_analysis, lines 359-360: json.load(project_file).
RaLoad(w) ==
    LET t == workers[w]
    IN  /\ w \in DOMAIN workers
        /\ t.op = "run_analysis" /\ t.at = "exists"
        /\ IF ProjectFile(t.id) \in writing
           THEN Moves(w, [t EXCEPT !.at = "done",
                                   !.ret = Raised("JSONDecodeError")])
           ELSE Moves(w, [t EXCEPT !.at = "loaded",
                                   !.project = projects[t.id]])
        /\ UNCHANGED <<served, projects, results_json, registry_json,
                       layout_files, clock, writing>>

\* detect_changes up to open(results_json_path, "w"); on unreadable images
\* it returns its error before that.
DcOpen(w) ==
    LET t == workers[w]
        results == detect_changes(uploads[t.id], t.id, clock)
    IN  /\ w \in DOMAIN workers
        /\ t.op = "run_analysis" /\ t.at = "loaded"
        /\ IF "error" \in DOMAIN results
           THEN /\ Moves(w, [t EXCEPT !.at = "detected",
                                      !.results = results])
                /\ UNCHANGED <<clock, writing>>
           ELSE /\ Moves(w, [t EXCEPT !.at = "results_open",
                                      !.results = results])
                /\ clock' = clock + 1
                /\ Opens(ResultsFile(t.id))
        /\ UNCHANGED <<served, projects, results_json, registry_json,
                       layout_files>>

\* detect_changes, lines 319-322: json.dump(results, f) and return.
DcDump(w) ==
    LET t == workers[w]
    IN  /\ w \in DOMAIN workers
        /\ t.op = "run_analysis" /\ t.at = "results_open"
        /\ results_json' = [results_json EXCEPT ![t.id] = t.results]
        /\ Dumps(ResultsFile(t.id))
        /\ Moves(w, [t EXCEPT !.at = "detected"])
        /\ UNCHANGED <<served, projects, registry_json, layout_files,
                       clock>>

\* run_analysis, lines 367-369: the two assignments and
\* open(project_file, "w").
RaOpen(w) ==
    LET t == workers[w]
    IN  /\ w \in DOMAIN workers
        /\ t.op = "run_analysis" /\ t.at = "detected"
        /\ Moves(w, [t EXCEPT !.at = "project_open",
                              !.project = analyzed(t.project, t.results)])
        /\ Opens(ProjectFile(t.id))
        /\ UNCHANGED <<served, projects, results_json, registry_json,
                       layout_files, clock>>

\* run_analysis, lines 370-373: json.dump(project, f) and return.
RaDump(w) ==
    LET t == workers[w]
    IN  /\ w \in DOMAIN workers
        /\ t.op = "run_analysis" /\ t.at = "project_open"
        /\ projects' = [projects EXCEPT ![t.id] = t.project]
        /\ Dumps(ProjectFile(t.id))
        /\ Moves(w, [t EXCEPT !.at = "done", !.ret = Returned(t.results)])
        /\ UNCHANGED <<served, results_json, registry_json, layout_files,
                       clock>>

\* list_projects: every project.json there is, loaded and sorted.
ListProjects(w) ==
    LET t == workers[w]
        stored == {i \in ProjectIds : projects[i] # None}
    IN  /\ w \in DOMAIN workers
        /\ t.op = "list_projects" /\ t.at = "start"
        /\ IF \E i \in stored : ProjectFile(i) \in writing
           THEN Moves(w, [t EXCEPT !.at = "done",
                                   !.ret = Raised("JSONDecodeError")])
           ELSE Moves(w, [t EXCEPT !.at = "done",
                                   !.ret = Returned([projects |->
                                                        list_projects])])
        /\ UNCHANGED <<served, projects, results_json, registry_json,
                       layout_files, clock, writing>>

\* upload_layout, lines 69-105: the image saved under the id and the
\* polygon taken from it.
UlSave(w) ==
    LET t == workers[w]
    IN  /\ w \in DOMAIN workers
        /\ t.op = "upload_layout" /\ t.at = "start"
        /\ layout_files' = layout_files \cup {t.id}
        /\ Moves(w, [t EXCEPT !.at = "saved"])
        /\ UNCHANGED <<served, projects, results_json, registry_json,
                       clock, writing>>

\* upload_layout, lines 108-114: the registry loaded, [] when the file is
\* missing or does not parse.
UlLoad(w) ==
    LET t == workers[w]
    IN  /\ w \in DOMAIN workers
        /\ t.op = "upload_layout" /\ t.at = "saved"
        /\ Moves(w, [t EXCEPT
               !.at = "loaded",
               !.registry_data = IF RegistryFile \in writing THEN <<>>
                                 ELSE registry_json])
        /\ UNCHANGED <<served, projects, results_json, registry_json,
                       layout_files, clock, writing>>

\* upload_layout, lines 117-132: the entry replaced in the loaded list and
\* open(REGISTRY_FILE, "w").
UlOpen(w) ==
    LET t == workers[w]
    IN  /\ w \in DOMAIN workers
        /\ t.op = "upload_layout" /\ t.at = "loaded"
        /\ Moves(w, [t EXCEPT
               !.at = "registry_open",
               !.registry_data = upload_layout(t.registry_data, t.id,
                                               t.contents, GridW).registry])
        /\ Opens(RegistryFile)
        /\ UNCHANGED <<served, projects, results_json, registry_json,
                       layout_files, clock>>

\* upload_layout, lines 133-135: json.dump(registry_data, f) and return.
UlDump(w) ==
    LET t == workers[w]
    IN  /\ w \in DOMAIN workers
        /\ t.op = "upload_layout" /\ t.at = "registry_open"
        /\ registry_json' = t.registry_data
        /\ Dumps(RegistryFile)
        /\ Moves(w, [t EXCEPT
               !.at = "done",
               !.ret = Returned(
                   [message |-> "Layout saved to registry",
                    entry |-> t.registry_data[Len(t.registry_data)]])])
        /\ UNCHANGED <<served, projects, results_json, layout_files, clock>>

WorkersNext ==
    \/ \E w \in WorkerIds : RaExists(w)
    \/ \E w \in WorkerIds : RaLoad(w)
    \/ \E w \in WorkerIds : DcOpen(w)
    \/ \E w \in WorkerIds : DcDump(w)
    \/ \E w \in WorkerIds : RaOpen(w)
    \/ \E w \in WorkerIds : RaDump(w)
    \/ \E w \in WorkerIds : ListProjects(w)
    \/ \E w \in WorkerIds : UlSave(w)
    \/ \E w \in WorkerIds : UlLoad(w)
    \/ \E w \in WorkerIds : UlOpen(w)
    \/ \E w \in WorkerIds : UlDump(w)

SpecWorkers == WorkersInit /\ [][WorkersNext]_vars

(***************************************************************************)
(* The properties.                                                         *)
(***************************************************************************)
\* compute_encroachment has just returned r_metrics (r_metrics was not
\* handed in).
RasterComputed == pc = "r_classify" /\ "approved_px" \in DOMAIN r_metrics
\* calculate_encroachment has just returned v_metrics.
VectorComputed == pc = "v_health" /\ "encroached_area" \in DOMAIN v_metrics
\* calculate_risk_score has just returned risk.
RiskComputed == pc = "r_health"

InPercentRange(x) == RLe(Whole(0), x) /\ RLe(x, Whole(100))

\* The pixel count of the encroachment mask, before the clamp.
RawEncroachedPx == countNonZero(r_metrics.masks.encroachment)

\* C1: every encroachment_pct returned by compute_encroachment, and every one
\* returned by calculate_encroachment for an approved polygon of non-zero
\* area, lies in [0, 100].
C1_EncroachmentPctWithinBounds ==
    /\ RasterComputed => InPercentRange(r_metrics.encroachment_pct)
    /\ VectorComputed /\ area(layout_poly) # 0
           => InPercentRange(v_metrics.encroachment_pct)

\* C1 witness: compute_encroachment has run on a non-empty plot whose
\* encroachment mask is larger than the plot.
C1_Witness_RawExceedsApproved ==
    /\ RasterComputed
    /\ plot_mask # {}
    /\ RawEncroachedPx > countNonZero(plot_mask)

\* C2: in both formulations the reported encroached area is clamped to the
\* reported approved area and the percentage is 100 * encroached / approved
\* of the reported areas; analyze_land_compliance reports the clamped area.
C2_ClampedAreaInBothForms ==
    /\ RasterComputed =>
           /\ r_metrics.encroached_px <= r_metrics.approved_px
           /\ r_metrics.encroachment_pct =
                  Round2(RMul(Rat(r_metrics.encroached_px,
                                  r_metrics.approved_px), Whole(100)))
    /\ VectorComputed /\ v_metrics.approved_area # 0 =>
           /\ v_metrics.encroached_area <= v_metrics.approved_area
           /\ REq(v_metrics.encroachment_pct,
                  RMul(Rat(v_metrics.encroached_area,
                           v_metrics.approved_area), Whole(100)))
    /\ analysis # None /\ analysis.exc = "none" =>
           analysis.val.metrics.encroached_area_px
               <= analysis.val.metrics.approved_area_px

\* C3: when the approved area is zero the encroachment computation reports
\* encroachment_pct = 0, whatever the built-up input is.
C3_ZeroApprovedAreaGivesZeroPct ==
    /\ RasterComputed /\ plot_mask = {}
           => REq(r_metrics.encroachment_pct, Whole(0))
    /\ VectorComputed /\ area(layout_poly) = 0
           => REq(v_metrics.encroachment_pct, Whole(0))

\* C4: the change_percentage that run_analysis persists in a project record
\* lies in [0, 100].
C4_ChangePercentageWithinBounds ==
    \A p \in ProjectIds :
        (/\ projects[p] # None
         /\ projects[p].status = "analyzed"
         /\ "change_detection" \in DOMAIN projects[p].results)
        => InPercentRange(projects[p].results.change_detection
                              .change_percentage)

\* The classification enumerations of the two classifiers.
Classifications ==
    {"MAJOR_VIOLATION", "ENCROACHMENT_MINOR", "VACANT", "UNDER_CONSTRUCTION",
     "FULLY_CONSTRUCTED"}
EngineClassifications ==
    {"Major Encroachment", "Encroached", "Vacant", "Under Construction",
     "Fully Constructed"}

\* C5: classification is total: on every metrics record the calculators
\* return, determine_classification and classify_land return a value of
\* their enumeration and never raise or return "Unknown".
C5_ClassificationTotal ==
    /\ land_class # None => land_class.val \in EngineClassifications
    /\ v_class # None =>
           /\ v_class.exc = "none"
           /\ v_class.val \in Classifications

\* The ordered bands of the classification table.
BandClassification(encroachment_pct, utilization_pct) ==
    IF RGt(encroachment_pct, Whole(15)) THEN "MAJOR_VIOLATION"
    ELSE IF RGt(encroachment_pct, Rat(1, 2)) THEN "ENCROACHMENT_MINOR"
    ELSE IF RLt(utilization_pct, Whole(5)) THEN "VACANT"
    ELSE IF RLt(utilization_pct, Whole(40)) THEN "UNDER_CONSTRUCTION"
    ELSE "FULLY_CONSTRUCTED"

\* The band a ComplianceEngine label stands for.
BandOfEngineLabel(label) ==
    CASE label = "Major Encroachment" -> "MAJOR_VIOLATION"
      [] label = "Encroached" -> "ENCROACHMENT_MINOR"
      [] label = "Vacant" -> "VACANT"
      [] label = "Under Construction" -> "UNDER_CONSTRUCTION"
      [] label = "Fully Constructed" -> "FULLY_CONSTRUCTED"
      [] OTHER -> "UNDEFINED"

\* C6: both classifiers return the first matching band of the table
\* (> 15, > 0.5, < 5, < 40, otherwise).
C6_ClassifiersUseTableBands ==
    /\ land_class # None =>
           BandOfEngineLabel(land_class.val)
               = BandClassification(r_metrics.encroachment_pct,
                                    r_metrics.utilization_pct)
    /\ v_class # None /\ v_class.exc = "none" =>
           v_class.val
               = BandClassification(
                     v_metrics.encroachment_pct,
                     RMul(Rat(v_metrics.builtup_area, v_metrics.approved_area),
                          Whole(100)))

\* The ordered bands of the risk table: <<lower bound, inclusive, level,
\* score>>, first match wins.
RiskBands ==
    <<[from |-> Whole(30), inclusive |-> TRUE, level |-> "CRITICAL",
       score |-> 100],
      [from |-> Whole(15), inclusive |-> TRUE, level |-> "MAJOR",
       score |-> 75],
      [from |-> Whole(5), inclusive |-> TRUE, level |-> "MODERATE",
       score |-> 40],
      [from |-> Rat(1, 2), inclusive |-> FALSE, level |-> "LOW",
       score |-> 10]>>

InBand(x, band) ==
    IF band.inclusive THEN RGe(x, band.from) ELSE RGt(x, band.from)

BandRisk(x) ==
    IF \E i \in 1 .. Len(RiskBands) : InBand(x, RiskBands[i])
    THEN LET i == CHOOSE j \in 1 .. Len(RiskBands) :
                      /\ InBand(x, RiskBands[j])
                      /\ \A k \in 1 .. (j - 1) : ~InBand(x, RiskBands[k])
         IN  [level |-> RiskBands[i].level, score |-> RiskBands[i].score]
    ELSE [level |-> "COMPLIANT", score |-> 0]

\* The table's name for a level string of calculate_risk_score.
RiskLevelName(level) ==
    CASE level = "MAJOR VIOLATION" -> "MAJOR"
      [] level = "MODERATE RISK" -> "MODERATE"
      [] level = "LOW RISK" -> "LOW"
      [] OTHER -> level

HealthFormula(utilization_pct, encroachment_pct, risk_score) ==
    LET h == RSub(RAdd(RMul(utilization_pct, Rat(2, 5)),
                       RMul(RSub(Whole(100), encroachment_pct), Rat(2, 5))),
                  RMul(Whole(risk_score), Rat(1, 5)))
    IN  IF RLt(h, Whole(0)) THEN Whole(0)
        ELSE IF RGt(h, Whole(100)) THEN Whole(100) ELSE h

\* C8: the health index of EconomicsEngine.calculate_health_index and the
\* one of calculate_health_index both equal the clamped formula (with the
\* risk score of the encroachment_pct) and lie in [0, 100].
C8_HealthIndexIsClampedFormula ==
    /\ econ_health # None =>
           /\ REq(econ_health.val,
                  HealthFormula(r_metrics.utilization_pct,
                                r_metrics.encroachment_pct, risk.score))
           /\ InPercentRange(econ_health.val)
    /\ v_health # None /\ v_health.exc = "none" =>
           /\ REq(v_health.val,
                  HealthFormula(
                      RMul(Rat(v_metrics.builtup_area,
                               v_metrics.approved_area), Whole(100)),
                      v_metrics.encroachment_pct,
                      BandRisk(v_metrics.encroachment_pct).score))
           /\ InPercentRange(v_health.val)

\* C9: both recommend_actions return at least one action for every
\* combination they are called with.
C9_ActionsNeverEmpty ==
    /\ engine_actions # None => Len(engine_actions.val) >= 1
    /\ v_actions # None => Len(v_actions.val) >= 1

\* C10: with the approved area held fixed, a smaller encroached area never
\* gets a larger encroachment_pct and a larger one never a smaller, and at
\* or beyond the approved area the percentage is 100; in both formulations.
C10_PctMonotoneInEncroachedArea ==
    /\ RasterComputed =>
           LET a == countNonZero(plot_mask)
               b == r_metrics.built_inside_px
               pct(n) == raster_metrics(a, b, n).encroachment_pct
           IN  \A n \in 0 .. GridW :
                   /\ n <= RawEncroachedPx
                          => RLe(pct(n), r_metrics.encroachment_pct)
                   /\ n >= RawEncroachedPx
                          => RGe(pct(n), r_metrics.encroachment_pct)
                   /\ n >= a /\ n >= 1 => REq(pct(n), Whole(100))
    /\ VectorComputed /\ area(layout_poly) # 0 =>
           LET a == area(layout_poly)
           IN  \A n \in 0 .. (MaxPolys * PlaneW) :
                   /\ n <= v_metrics.encroached_area
                          => RLe(vector_pct(n, a),
                                 v_metrics.encroachment_pct)
                   /\ n >= v_metrics.encroached_area
                          => RGe(vector_pct(n, a),
                                 v_metrics.encroachment_pct)
                   /\ n >= a => REq(vector_pct(n, a), Whole(100))

\* C10 witness: compute_encroachment has run with an encroachment mask that
\* is non-empty and smaller than the plot, so the percentage is below the
\* clamp.
C10_Witness_BelowClamp ==
    /\ RasterComputed
    /\ RawEncroachedPx > 0
    /\ RawEncroachedPx < countNonZero(plot_mask)
    /\ RLt(r_metrics.encroachment_pct, Whole(100))

\* C11: whenever the encroached area before the clamp is greater than a
\* non-zero approved area, the reported encroachment_pct is exactly 100, in
\* the raster and in the vector formulation.
C11_RawAboveApprovedGivesExactly100 ==
    /\ (RasterComputed /\ plot_mask # {}
            /\ RawEncroachedPx > countNonZero(plot_mask))
           => r_metrics.encroachment_pct = Whole(100)
    /\ (VectorComputed /\ area(layout_poly) # 0
            /\ v_metrics.encroached_area > v_metrics.approved_area)
           => v_metrics.encroachment_pct = Whole(100)

\* C11 witness: calculate_encroachment has run on a layout of non-zero area
\* with built-up polygons whose summed difference area exceeds it.
C11_Witness_VectorRawExceedsApproved ==
    /\ VectorComputed
    /\ area(layout_poly) # 0
    /\ v_metrics.encroached_area > v_metrics.approved_area

\* C12: fed the same geometry (the layout and the built-up polygons, and
\* the masks they fill), calculate_encroachment and compute_encroachment
\* agree: the summed difference area equals the pixel count of the
\* encroachment mask, and the two percentages are equal, each within one
\* pixel per built-up polygon.
C12_RasterAndVectorAgree ==
    VectorComputed /\ area(layout_poly) # 0 =>
        LET r == compute_encroachment(GridW, fillPoly(<<layout_poly>>),
                                      fillPoly(builtup_polys))
            tol == Len(builtup_polys)
            pct_gap == RSub(RMax(v_metrics.encroachment_pct,
                                 r.encroachment_pct),
                            RMin(v_metrics.encroachment_pct,
                                 r.encroachment_pct))
        IN  /\ Abs(v_metrics.encroached_area
                       - countNonZero(r.masks.encroachment)) <= tol
            /\ RLe(pct_gap, Rat(100 * tol, area(layout_poly)))

\* C13: the utilization is 100 * |built-up AND approved| / approved area and
\* lies in [0, 100]: the utilization_pct of compute_encroachment, and the
\* utilization calculate_health_index and determine_classification compute
\* from the record of calculate_encroachment.
C13_UtilizationIsShareOfApprovedPlot ==
    /\ RasterComputed =>
           /\ r_metrics.utilization_pct =
                  Round2(RMul(Rat(countNonZero(bitwise_and(built_up_mask,
                                                           plot_mask)),
                                  r_metrics.approved_px), Whole(100)))
           /\ InPercentRange(r_metrics.utilization_pct)
    /\ VectorComputed /\ area(layout_poly) # 0 =>
           /\ REq(vector_utilization_pct(v_metrics),
                  RMul(Rat(area(intersection(fillPoly(builtup_polys),
                                             layout_poly)),
                           area(layout_poly)), Whole(100)))
           /\ InPercentRange(vector_utilization_pct(v_metrics))

\* C14: when no built-up area is detected and the approved area is not
\* zero, the run yields encroachment_pct = 0, utilization 0, the vacant
\* classification, risk COMPLIANT with score 0 and a health index of
\* exactly 40: in the engine chain, in the metrics.py chain and in
\* analyze_land_compliance.
C14_NoBuiltUpScenario ==
    /\ (pc = "done" /\ engine_actions # None
            /\ plot_mask # {} /\ built_up_mask = {}) =>
           /\ r_metrics.encroachment_pct = Whole(0)
           /\ r_metrics.utilization_pct = Whole(0)
           /\ land_class.val = "Vacant"
           /\ risk.level = "COMPLIANT" /\ risk.score = 0
           /\ econ_health.val = Whole(40)
    /\ (pc = "done" /\ v_actions # None
            /\ layout_poly # {} /\ builtup_polys = <<>>) =>
           /\ v_metrics.encroachment_pct = Whole(0)
           /\ vector_utilization_pct(v_metrics) = Whole(0)
           /\ v_class = Returned("VACANT")
           /\ v_health = Returned(Whole(40))
    /\ (analysis # None /\ layout_poly # {} /\ builtup_polys = <<>>) =>
           /\ analysis.exc = "none"
           /\ analysis.val.metrics.encroachment_pct = Whole(0)
           /\ analysis.val.intelligence.classification = "VACANT"
           /\ analysis.val.intelligence.health_index = Whole(40)

\* The engine chain is running on the masks of the worked scenario.
OnScenarioMasks ==
    /\ mask_shape = ScenarioShape
    /\ plot_mask = ScenarioPlot /\ built_up_mask = ScenarioBlock

\* C15: on an approved square of 100 x 100 pixels and a built-up block of
\* 20 x 20 pixels wholly outside it, compute_encroachment reports
\* encroached_px = 400, approved_px = 10000 and encroachment_pct = 4.0,
\* classify_land returns the ENCROACHMENT_MINOR band and calculate_risk_score
\* the LOW level with score 10; determine_classification returns
\* ENCROACHMENT_MINOR for an encroachment_pct of 4.0.
C15_OutsideBlockScenario ==
    /\ (OnScenarioMasks /\ r_metrics # None) =>
           /\ r_metrics.encroached_px = 400
           /\ r_metrics.approved_px = 10000
           /\ r_metrics.encroachment_pct = Whole(4)
    /\ (OnScenarioMasks /\ land_class # None) =>
           BandOfEngineLabel(land_class.val) = "ENCROACHMENT_MINOR"
    /\ (OnScenarioMasks /\ risk # None) =>
           /\ RiskLevelName(risk.level) = "LOW"
           /\ risk.score = 10
    /\ (v_class # None /\ v_metrics.encroachment_pct = Whole(4)) =>
           v_class = Returned("ENCROACHMENT_MINOR")

\* C15 witness: the engine chain has run to its end on the scenario's masks.
C15_Witness_ScenarioRun ==
    /\ OnScenarioMasks
    /\ pc = "done"
    /\ r_metrics.encroached_px = 400
    /\ risk.score = 10

\* The fields of a complete result record, and the field names a returned
\* record holds at its top level and in its sections.
RequiredFields ==
    {"approved_area_px", "builtup_area_px", "encroached_area_px",
     "encroachment_pct", "utilization_pct", "classification", "risk_level",
     "health_index", "actions"}
ResultSections == {"metrics", "intelligence", "change_detection"}
FieldsOf(result) ==
    DOMAIN result
    \cup UNION {DOMAIN result[k] : k \in ResultSections \cap DOMAIN result}
ErrorOnly(result) == DOMAIN result = {"error"}
ActionsOf(result) ==
    IF "intelligence" \in DOMAIN result THEN result.intelligence.actions
    ELSE IF "actions" \in DOMAIN result THEN result.actions
    ELSE <<>>
Complete(result) ==
    /\ RequiredFields \subseteq FieldsOf(result)
    /\ Len(ActionsOf(result)) >= 1

\* C16: every value an analysis entry point returns is an error-only record
\* or a complete record: analyze_land_compliance never raises and never
\* returns anything in between, and neither does what run_analysis stores
\* of detect_changes.
C16_NoPartialResults ==
    /\ analysis # None =>
           /\ analysis.exc = "none"
           /\ ErrorOnly(analysis.val) \/ Complete(analysis.val)
    /\ \A p \in ProjectIds :
           (projects[p] # None /\ projects[p].status = "analyzed") =>
               \/ ErrorOnly(projects[p].results)
               \/ Complete(projects[p].results)

\* C17: when the layout map or the satellite image cannot be read,
\* analyze_land_compliance returns an error-only record (it neither raises
\* nor computes), and so does detect_changes under run_analysis, which then
\* writes no results file.
C17_UnreadableImageGivesErrorResult ==
    /\ (/\ analysis # None /\ layout_image # None
        /\ ~layout_image.readable \/ ~satellite_image.readable) =>
           /\ analysis.exc = "none"
           /\ ErrorOnly(analysis.val)
    /\ \A p \in ProjectIds :
           (/\ projects[p] # None /\ projects[p].status = "analyzed"
            /\ ~uploads[p].ref_readable \/ ~uploads[p].sat_readable) =>
               /\ ErrorOnly(projects[p].results)
               /\ results_json[p] = None

\* The layout map was read but holds no boundary contour.
NoBoundaryDetected ==
    /\ layout_image # None
    /\ layout_image.readable
    /\ layout_image.boundary = EmptyPolygon

\* C18: when the layout map yields no contour, analyze_land_compliance
\* still returns a result, computed on the central 60% box of the frame (to
\* the pixel), and the admin handlers answer with a non-empty polygon:
\* digitize_layout does not raise and upload_layout stores a region.
C18_NoBoundaryFallsBackToCentralBox ==
    /\ (analysis # None /\ NoBoundaryDetected
            /\ satellite_image.readable) =>
           /\ analysis.exc = "none"
           /\ "metrics" \in DOMAIN analysis.val
           /\ analysis.val.metrics.approved_area_px > 0
           /\ Abs(10 * analysis.val.metrics.approved_area_px - 6 * GridW)
                  < 10
    /\ (admin_response # None /\ NoBoundaryDetected) =>
           /\ admin_response.exc = "none"
           /\ "polygon" \in DOMAIN admin_response.val
                  => admin_response.val.polygon # EmptyPolygon
           /\ "entry" \in DOMAIN admin_response.val
                  => /\ admin_response.val.entry.coordinates # EmptyPolygon
                     /\ registry_json[Len(registry_json)].coordinates
                            # EmptyPolygon

\* C19: the built-up mask a detector returns has the shape of the input
\* image and no foreground pixel outside the ROI: the final mask and every
\* polygon of detect_builtup_areas lie inside the roi_mask it was given, and
\* the mask of analyze_satellite_builtup has the frame's shape and lies
\* inside the filled plot polygon.
C19_BuiltUpMaskInsideRoi ==
    /\ (detection # None /\ detection.exc = "none") =>
           /\ detection.val.final_mask \subseteq roi_mask
           /\ \A i \in DOMAIN detection.val.builtup_polygons :
                  detection.val.builtup_polygons[i] \subseteq roi_mask
    /\ (sat_builtup # None /\ sat_builtup.built_up_mask # None) =>
           /\ sat_builtup.built_up_mask.shape = GridW
           /\ sat_builtup.built_up_mask.pixels
                  \subseteq (plot_polygon.x0 .. plot_polygon.x1)

\* C20: an empty region of interest is not an error: on an all-background
\* roi_mask detect_builtup_areas returns an all-background mask and no
\* polygon, on which calculate_encroachment reports 0%; on a plot polygon
\* whose crop is empty analyze_satellite_builtup returns an all-background
\* mask, not None.
C20_EmptyRoiGivesEmptyMask ==
    /\ (detection # None /\ satellite_image.readable /\ roi_mask = {}) =>
           /\ detection.exc = "none"
           /\ detection.val.final_mask = {}
           /\ \A layout \in Rects :
                  calculate_encroachment(
                      layout, detection.val.builtup_polygons)
                      .encroachment_pct = Whole(0)
    /\ (/\ sat_builtup # None
        /\ (plot_polygon.x0 .. plot_polygon.x1) \cap Grid = {}) =>
           /\ sat_builtup.built_up_mask # None
           /\ sat_builtup.built_up_mask.pixels = {}

\* C21: extract_layout_metadata never raises, and when the extraction fails
\* (no API key, every model call failing, an answer that does not parse)
\* the value it returns is a dict with no fields.
MetadataFailed(call) ==
    \/ ~call.api_key
    \/ try_models(call, 1).response = None
    \/ call.response.text = "unparsable"

C21_MetadataFailureGivesEmptyDict ==
    pc = "x_done" =>
        /\ metadata.ret.exc = "none"
        /\ MetadataFailed(metadata_call) => DOMAIN metadata.ret.val = {}

\* C22: create_project stores a record with status "uploaded" and results
\* null; run_analysis is the only operation that changes a stored record,
\* and each run_analysis leaves the record's results equal to the output of
\* that run, whatever the results were before, with id, name, created_at
\* and the two image paths as they were.
\* A step in which run_analysis runs on a stored project, called directly
\* or by analyze_project.
Analyzes(project_id) ==
    projects[project_id] # None /\ run_analysis(project_id)

KeptFields ==
    {"id", "name", "created_at", "reference_image", "satellite_image"}

LifecycleStep(project_id) ==
    LET before == projects[project_id]
        after == projects'[project_id]
    IN  /\ before = None /\ after # None =>
               after.status = "uploaded" /\ after.results = None
        /\ before # None =>
               /\ after # None
               /\ \A f \in KeptFields : after[f] = before[f]
               /\ after # before => Analyzes(project_id)
        /\ Analyzes(project_id) =>
               /\ returned' = detect_changes(uploads[project_id],
                                             project_id, clock)
               /\ after.results = returned'
               /\ DOMAIN after = DOMAIN before

C22_ProjectLifecycle ==
    [][\A project_id \in ProjectIds : LifecycleStep(project_id)]_vars

\* A project that was analyzed twice: it is the only project, and its
\* results carry the second reading of the clock after its creation.
C22_Witness_SecondRun ==
    /\ projects["p2"] = None /\ projects["p1"] # None
    /\ projects["p1"].status = "analyzed"
    /\ "timestamp" \in DOMAIN projects["p1"].results
    /\ projects["p1"].results.timestamp = projects["p1"].created_at + 2

\* C27: a stored record has status "analyzed" only with results that carry
\* no error field, and a run_analysis whose detect_changes returns an error
\* leaves the stored record as it was before the call.
AnalyzedWithoutError(project) ==
    project # None /\ project.status = "analyzed" =>
        "error" \notin DOMAIN project.results

C27_AnalyzedOnlyWithoutError ==
    [][\A project_id \in ProjectIds :
          /\ AnalyzedWithoutError(projects'[project_id])
          /\ Analyzes(project_id) /\ "error" \in DOMAIN returned' =>
                 projects'[project_id] = projects[project_id]]_vars

\* C26: an upload of a satellite image with a plot_id and no reference map
\* succeeds and returns a new project id, and an analyze request for that
\* id then succeeds with results; an upload with neither a reference map
\* nor a plot_id is rejected with status 400 and creates no project.
UploadResponds(form) ==
    /\ ~form.reference /\ form.plot_id =>
           /\ response'.exc = "none"
           /\ \E project_id \in ProjectIds :
                  /\ projects[project_id] = None
                  /\ projects'[project_id] # None
                  /\ response'.val.project.id = project_id
    /\ ~form.reference /\ ~form.plot_id =>
           /\ response' = Raised("HTTPException(400)")
           /\ projects' = projects

Uploaded(project_id) ==
    /\ response # None /\ response.exc = "none"
    /\ "project" \in DOMAIN response.val
    /\ response.val.project.id = project_id

C26_PlotIdUploadThenAnalyze ==
    [][/\ \A form \in UploadForms, project_id \in ProjectIds,
             pair \in SamplePairs :
             UploadImages(form, project_id, pair) => UploadResponds(form)
       /\ \A project_id \in ProjectIds :
             Uploaded(project_id) /\ AnalyzeProject(project_id) =>
                 response'.exc = "none"]_vars

\* C29: get_mobile_alerts returns without raising whatever the store holds,
\* with one HIGH alert for every analyzed project whose change-detection
\* status is "violation" or "major_violation", and with the single
\* "System Active" alert only when no stored project is in violation.
InViolation(project) ==
    /\ project # None /\ project.status = "analyzed"
    /\ "change_detection" \in DOMAIN project.results
    /\ project.results.change_detection.status
           \in {"violation", "major_violation"}

AlertsFor(alerts, project_id) ==
    {i \in DOMAIN alerts :
        alerts[i].severity = "HIGH" /\ alerts[i].plotId = project_id}

C29_MobileAlertsCoverViolations ==
    [][GetMobileAlerts =>
          /\ response'.exc = "none"
          /\ \A project_id \in ProjectIds :
                 InViolation(projects[project_id]) =>
                     Cardinality(AlertsFor(response'.val.alerts,
                                           project_id)) = 1
          /\ (\E i \in DOMAIN response'.val.alerts :
                  response'.val.alerts[i].plotId = "SYS-001")
             => \A project_id \in ProjectIds :
                    ~InViolation(projects[project_id])]_vars

\* C24: the penalty is the reported encroached area times the pixel-to-area
\* scale times the penalty rate (rounded to two places), so it is zero for
\* zero encroachment, and it never exceeds the approved area times the
\* scale times the rate; for estimate_financial_impact that bound is
\* plot_area_sqft * penalty_rate_per_sqft.  This holds of
\* estimate_financial_impact and of the estimate of
\* analyze_land_compliance.
EnginePenaltyLinear(plot_area_sqft, metrics, estimate) ==
    LET scale == IF metrics.approved_px > 0
                 THEN RMul(plot_area_sqft, Rat(1, metrics.approved_px))
                 ELSE Whole(0)
    IN  /\ estimate.recoverable_penalty =
               Round2(RMul(RMul(Whole(metrics.encroached_px), scale),
                           penalty_rate_per_sqft))
        /\ metrics.encroached_px = 0 =>
               estimate.recoverable_penalty = Whole(0)
        /\ RLe(estimate.recoverable_penalty,
               RMul(plot_area_sqft, penalty_rate_per_sqft))

AnalysisPenaltyLinear(result) ==
    result # None /\ result.exc = "none"
    /\ "intelligence" \in DOMAIN result.val =>
        LET m == result.val.metrics
            penalty == result.val.intelligence.financial.estimated_penalty
            rate == RMul(pixel_to_sqm_factor, Whole(PENALTY_RATE_PER_SQM))
        IN  /\ penalty = Round2(RMul(Whole(m.encroached_area_px), rate))
            /\ m.encroached_area_px = 0 => penalty = Whole(0)
            /\ RLe(penalty, RMul(Whole(m.approved_area_px), rate))

C24_PenaltyLinearAndBounded ==
    [][/\ \A plot_area_sqft \in PlotAreasSqft :
             EstimateFinancialImpact(plot_area_sqft) =>
                 EnginePenaltyLinear(plot_area_sqft, r_metrics,
                                     financial_impact'.val)
       /\ AnalysisPenaltyLinear(analysis')]_vars

\* C25: once an upload-layout request for a plot id has succeeded, the
\* response of a later GET /api/geojson has a feature whose properties.id
\* is that id.
LayoutUploaded(id) ==
    /\ admin_response # None /\ admin_response.exc = "none"
    /\ "entry" \in DOMAIN admin_response.val
    /\ admin_response.val.entry.id = id

C25_UploadedPlotOnMap ==
    [][\A id \in LayoutIds :
          LayoutUploaded(id) /\ GetGeojson("") =>
              \E i \in DOMAIN response'.val.features :
                  response'.val.features[i].properties.id = id]_vars

\* C30: for every approved polygon and every list of built-up polygons,
\* calculate_encroachment reports an encroached_area that is at most the
\* builtup_area; the part of each built-up polygon inside the approved
\* polygon and the part outside it add up to the polygon's area; and
\* encroachment_polygons holds exactly the non-empty differences, in input
\* order.
NonEmptyDifferences(layout, polys) ==
    SelectSeq([i \in DOMAIN polys |-> difference(polys[i], layout)],
              LAMBDA d : ~is_empty(d))

C30_EncroachmentPartition ==
    VectorComputed =>
        /\ v_metrics.encroached_area <= v_metrics.builtup_area
        /\ \A i \in DOMAIN builtup_polys :
               area(intersection(builtup_polys[i], layout_poly))
               + area(difference(builtup_polys[i], layout_poly))
               = area(builtup_polys[i])
        /\ "encroachment_polygons" \in DOMAIN v_metrics
        /\ v_metrics.encroachment_polygons
               = NonEmptyDifferences(layout_poly, builtup_polys)

\* C23: when two workers run run_analysis on the same project id side by
\* side, the writes of one (results.json, then project.json) do not fall
\* between the writes of the other; list_projects never meets a record
\* that is partly written; and once both have returned, the stored record
\* and results.json are those one of the two runs would have written
\* alone.
Runs(project_id) ==
    {w \in DOMAIN workers :
        workers[w].op = "run_analysis" /\ workers[w].id = project_id}

WrittenAlone(w, project_id) ==
    LET t == workers[w]
    IN  \/ /\ t.project = None /\ t.ret # None /\ t.ret.exc = "none"
           /\ projects[project_id] = None
           /\ results_json[project_id] = None
        \/ /\ t.project # None /\ t.results # None
           /\ projects[project_id] = analyzed(t.project, t.results)
           /\ "error" \notin DOMAIN t.results =>
                  results_json[project_id] = t.results

\* The worker is between its first open for writing and its return.
InWrites(w) ==
    workers[w].at \in {"results_open", "detected", "project_open"}
    /\ "error" \notin DOMAIN workers[w].results

WritesDoNotInterleave(project_id) ==
    Cardinality({w \in Runs(project_id) : InWrites(w)}) <= 1

ReaderMeetsWholeRecords ==
    \A w \in DOMAIN workers :
        workers[w].op = "list_projects" =>
            workers[w].ret # Raised("JSONDecodeError")

EndsAsOneRun(project_id) ==
    (/\ Cardinality(Runs(project_id)) = 2
     /\ \A w \in Runs(project_id) : workers[w].at = "done")
    => \E w \in Runs(project_id) : WrittenAlone(w, project_id)

C23_ProjectWritesSerialized ==
    pc = "serving" =>
        /\ ReaderMeetsWholeRecords
        /\ \A project_id \in ProjectIds :
               /\ WritesDoNotInterleave(project_id)
               /\ EndsAsOneRun(project_id)

\* C28: from a registry with unique ids, once every upload_layout request
\* has returned, registry.json holds exactly one entry for every id that
\* was uploaded or was there before, and the entry of an uploaded id is the
\* one a request for that id wrote.
Uploads ==
    {w \in DOMAIN workers : workers[w].op = "upload_layout"}

EntriesOf(id) ==
    {i \in DOMAIN registry_json : registry_json[i].id = id}

C28_RegistryUpdatesNotLost ==
    (/\ pc = "serving" /\ Uploads # {}
     /\ \A w \in Uploads : workers[w].at = "done")
    => /\ RegistryFile \notin writing
       /\ \A id \in LayoutIds :
              Cardinality(EntriesOf(id)) = IF id \in layout_files THEN 1
                                           ELSE 0
       /\ \A w \in Uploads :
              \A i \in EntriesOf(workers[w].id) :
                  \E v \in Uploads :
                      /\ workers[v].id = workers[w].id
                      /\ registry_json[i] = workers[v].ret.val.entry

====
